---------------------------- MODULE Spec2Model ----------------------------
(***************************************************************************)
(* A model of the synthetic document generator: the template registry of   *)
(* the three generators (W2Generator, PaystubGenerator, OtherGenerator),   *)
(* the orchestrator (main, generate_documents) and the field routines.     *)
(*                                                                         *)
(* Strings that the code inspects character by character (file names,      *)
(* paths, keywords) are sequences of one-character strings.  Strings that  *)
(* the code only compares for equality are TLA+ strings.                   *)
(***************************************************************************)
EXTENDS Integers, Sequences, FiniteSets, TLC

VARIABLES
    \* ---- one generator instance (BaseDocumentGenerator subclass) ----
    generator,      \* the instance: cls, templates, template_index, document_types
    ctor_cls,       \* the class whose constructor was called last, or "none"
    ctor_error,     \* the exception that constructor call raised, or "none"
    listing,        \* the entries the directory scan returned to that call
    dispatched,     \* the paths get_html_template_path returned so far, in order
    template_path,  \* the path the last get_html_template_path call returned
    routine,        \* the generate_*_data routine the last generate_fake_data ran
    last_call,      \* the last method called on the instance
    prev_call,      \* the method called before it
    \* ---- the orchestrator (main_refactored.py) ----
    doc_type_arg,   \* args.doc_type
    schedule,       \* the generate_documents calls main still has to make
    completed,      \* the classes whose generate_documents call returned
    pc,             \* where the program is
    count,          \* generate_documents' count argument
    i,              \* the loop variable of generate_documents (0-based)
    attempted,      \* the document numbers (i+1) whose iteration started, in order
    succeeded,      \* the document numbers whose generate_and_save returned
    errors,         \* the document numbers of the "Error generating" lines
    last_raise,     \* the step that raised the last exception of this call
    stdout,         \* the lines generate_documents printed in this call
    \* ---- one call of a field routine (generate_fake_data) ----
    field_call,     \* the routine whose mapping is in data, or "none"
    draws,          \* what the random module returned to that call
    data,           \* the mapping the routine returned
    field_error,    \* the exception the routine raised instead, or "none"
    \* ---- render_html_to_image ----
    temp_pdf,       \* the temporary PDF of the last call: "none", "exists", "removed"
    \* ---- callers of generate_clean_document, step by step ----
    instances,      \* the generator instances the callers use
    serialized,     \* whether the callers of one instance take turns
    callers,        \* each caller: its instance, its position and its locals
    returned        \* per instance, the paths get_html_template_path returned

genVars  == <<generator, ctor_cls, ctor_error, listing, dispatched, template_path,
              routine, last_call, prev_call>>
mainVars == <<doc_type_arg, schedule, completed, pc, count, i, attempted,
              succeeded, errors, last_raise, stdout>>
fieldVars == <<field_call, draws, data, field_error>>
renderVars == <<temp_pdf>>
callerVars == <<instances, serialized, callers, returned>>
vars     == <<genVars, mainVars, fieldVars, renderVars, callerVars>>

-----------------------------------------------------------------------------
(* Bounds of the model. *)

\* The largest number of entries a scanned template directory holds when
\* an instance is driven directly.
MaxTemplates == 3
\* The largest number of entries a scanned template directory holds in a
\* run of main.
MaxBatchTemplates == 2
\* The largest number of get_html_template_path calls made on one instance
\* when the instance is driven directly.
MaxCalls == 4
\* The largest count passed to generate_documents.
MaxCount == 5

-----------------------------------------------------------------------------
(* Characters and Python's string order. *)

\* The characters that occur in the model's names, in ascending code point
\* order ('.' 46, '/' 47, digits, upper case, '_' 95, lower case).
CharsAscending ==
    <<".", "/", "2", "R", "_", "a", "b", "c", "d", "e", "h", "i", "k", "l",
      "m", "n", "o", "p", "r", "s", "t", "u", "v", "w", "x", "y">>

CharSet == {CharsAscending[k] : k \in DOMAIN CharsAscending}

\* ord(): order-isomorphic to the code points of the characters in use.
Ord == [c \in CharSet |-> CHOOSE k \in DOMAIN CharsAscending : CharsAscending[k] = c]

Min(a, b) == IF a <= b THEN a ELSE b

\* Python's str.__lt__: the first differing character decides, a proper
\* prefix is smaller.
StrLess(a, b) ==
    LET differing == {k \in 1..Min(Len(a), Len(b)) : a[k] # b[k]}
    IN  IF differing = {} THEN Len(a) < Len(b)
        ELSE LET first == CHOOSE k \in differing : \A m \in differing : k <= m
             IN  Ord[a[first]] < Ord[b[first]]

\* Python's `needle in haystack` for strings.
Contains(haystack, needle) ==
    \E p \in 1..(Len(haystack) - Len(needle) + 1) :
        SubSeq(haystack, p, p + Len(needle) - 1) = needle

\* str.endswith
EndsWith(s, suffix) ==
    /\ Len(suffix) <= Len(s)
    /\ SubSeq(s, Len(s) - Len(suffix) + 1, Len(s)) = suffix

Range(s) == {s[k] : k \in DOMAIN s}

\* seq[k] with Python's indexing: 0-based, a negative k counts from the end.
PyIndex(s, k) == IF k < 0 THEN s[Len(s) + k + 1] ELSE s[k + 1]

-----------------------------------------------------------------------------
(* The template directories. *)

Classes == {"w2", "paystub", "other"}

\* os.path.join(os.path.dirname(__file__), 'templates'), relative to the
\* generators package.
TemplatesDir(cls) ==
    CASE cls = "w2"      -> <<"w","2","/","t","e","m","p","l","a","t","e","s">>
      [] cls = "paystub" -> <<"p","a","y","s","t","u","b","/","t","e","m","p","l","a","t","e","s">>
      [] cls = "other"   -> <<"o","t","h","e","r","/","t","e","m","p","l","a","t","e","s">>

\* The entries a template directory of the miscellaneous class may hold.
OtherEntries ==
    { <<"d","r","i","v","e","r","s","_","l","i","c","e","n","s","e",".","h","t","m","l">>,
      <<"b","a","n","k","_","l","e","t","t","e","r",".","h","t","m","l">>,
      <<"r","e","c","e","i","p","t","_","b","a","n","k",".","h","t","m","l">>,
      <<"b","o","o","k","_","r","e","p","o","r","t",".","h","t","m","l">>,
      <<"m","e","d","i","c","a","l","_","i","n","v","o","i","c","e",".","h","t","m","l">>,
      <<"m","e","d","i","c","a","l",".","h","t","m","l">>,
      <<"b","a","n","k",".","h","t","m","l">>,
      <<"r","e","p","o","r","t","_","c","a","r","d",".","h","t","m","l">>,
      <<"R","e","c","e","i","p","t",".","h","t","m","l">>,
      <<"n","o","t","e","s",".","t","x","t">> }

\* The entries a template directory of the tax-form or pay-statement class
\* may hold.
PlainEntries ==
    { <<"a",".","h","t","m","l">>,
      <<"b",".","h","t","m","l">>,
      <<"n","o","t","e","s",".","t","x","t">> }

DirEntries(cls) == IF cls = "other" THEN OtherEntries ELSE PlainEntries

\* The orders in which a directory scan may return at most n of the entries
\* of S: every sequence without repetition.
RECURSIVE Listings(_, _)
Listings(S, n) ==
    IF n = 0 THEN {<<>>}
    ELSE LET shorter == Listings(S, n - 1)
         IN  shorter \cup
             UNION { { Append(s, e) : e \in S \ Range(s) } : s \in shorter }

-----------------------------------------------------------------------------
(* The template registry: _load_templates, _get_document_types,            *)
(* get_html_template_path and the routine choice of generate_fake_data.    *)

DotHtml == <<".", "h", "t", "m", "l">>

\* fnmatch of a directory entry against '*.html' as glob applies it: the
\* suffix must match and a hidden entry (leading dot) is skipped.
MatchesPattern(name) == EndsWith(name, DotHtml) /\ name[1] # "."

\* os.path.join(directory, name) for a relative name: a separator is put
\* between the two unless the directory is empty or ends with one.
JoinPath(directory, name) ==
    IF directory = <<>> THEN name
    ELSE IF directory[Len(directory)] = "/" THEN directory \o name
    ELSE directory \o <<"/">> \o name

\* os.path.basename: what follows the last separator.
Basename(path) ==
    LET seps == {k \in DOMAIN path : path[k] = "/"}
    IN  IF seps = {} THEN path
        ELSE SubSeq(path, (CHOOSE k \in seps : \A m \in seps : m <= k) + 1, Len(path))

RECURSIVE MapJoin(_, _)
MapJoin(directory, names) ==
    IF names = <<>> THEN <<>>
    ELSE <<JoinPath(directory, Head(names))>> \o MapJoin(directory, Tail(names))

\* glob.glob(os.path.join(templates_dir, '*.html')): the matching entries, as
\* paths, in the order the scan returned them.
Glob(cls, scan) == MapJoin(TemplatesDir(cls), SelectSeq(scan, MatchesPattern))

\* One step of sorted(): x placed before the first element that is not
\* smaller than it.
RECURSIVE InsertSorted(_, _)
InsertSorted(x, s) ==
    IF s = <<>> THEN <<x>>
    ELSE IF StrLess(Head(s), x) THEN <<Head(s)>> \o InsertSorted(x, Tail(s))
    ELSE <<x>> \o s

\* The mutant of Sorted: the scan order is kept.
SortedOmitted(s) == s

\* sorted(template_files)
RECURSIVE Sorted(_)
Sorted(s) == IF s = <<>> THEN <<>> ELSE InsertSorted(Head(s), Sorted(Tail(s)))

NoTemplatesFoundError == "FileNotFoundError: No HTML templates found"

\* The mutant of LoadTemplates: the emptiness check is missing.
LoadTemplatesUnchecked(cls, scan) ==
    [error |-> "none", value |-> Sorted(Glob(cls, scan))]

\* _load_templates: the raised exception (or "none") and the returned list.
LoadTemplates(cls, scan) ==
    LET template_files == Glob(cls, scan)
    IN  IF template_files = <<>>
        THEN [error |-> NoTemplatesFoundError, value |-> <<>>]
        ELSE [error |-> "none", value |-> Sorted(template_files)]

KwDriversLicense == <<"d","r","i","v","e","r","s","_","l","i","c","e","n","s","e">>
KwReceipt        == <<"r","e","c","e","i","p","t">>
KwLetter         == <<"l","e","t","t","e","r">>
KwBook           == <<"b","o","o","k">>
KwInvoice        == <<"i","n","v","o","i","c","e">>
KwMedical        == <<"m","e","d","i","c","a","l">>
KwBank           == <<"b","a","n","k">>
KwReport         == <<"r","e","p","o","r","t">>

\* The mutant of DocumentTypeOf: two rules of the chain are swapped.
DocumentTypeOfSwapped(filename) ==
    IF Contains(filename, KwDriversLicense) THEN "drivers_license"
    ELSE IF Contains(filename, KwReceipt) THEN "receipt"
    ELSE IF Contains(filename, KwBank) THEN "bank_statement"
    ELSE IF Contains(filename, KwBook) THEN "book_page"
    ELSE IF Contains(filename, KwInvoice) THEN "invoice"
    ELSE IF Contains(filename, KwMedical) THEN "medical"
    ELSE IF Contains(filename, KwLetter) THEN "letter"
    ELSE IF Contains(filename, KwReport) THEN "report_card"
    ELSE "generic"

\* The if/elif chain of _get_document_types for one file name.
DocumentTypeOf(filename) ==
    IF Contains(filename, KwDriversLicense) THEN "drivers_license"
    ELSE IF Contains(filename, KwReceipt) THEN "receipt"
    ELSE IF Contains(filename, KwLetter) THEN "letter"
    ELSE IF Contains(filename, KwBook) THEN "book_page"
    ELSE IF Contains(filename, KwInvoice) THEN "invoice"
    ELSE IF Contains(filename, KwMedical) THEN "medical"
    ELSE IF Contains(filename, KwBank) THEN "bank_statement"
    ELSE IF Contains(filename, KwReport) THEN "report_card"
    ELSE "generic"

\* _get_document_types: the dict from template path to document type.
GetDocumentTypes(templates) ==
    [t \in Range(templates) |-> DocumentTypeOf(Basename(t))]

\* Before construction, and after a constructor call that raised, there is
\* no instance.
NoGenerator ==
    [cls |-> "none", templates |-> <<>>, template_index |-> 0,
     document_types |-> <<>>]

\* __init__ of the three generators: template_index = 0, then
\* _load_templates (which may raise), then, for OtherGenerator,
\* _get_document_types.
NewGenerator(cls, scan) ==
    LET loaded == LoadTemplates(cls, scan)
    IN  IF loaded.error # "none"
        THEN [error |-> loaded.error, instance |-> NoGenerator]
        ELSE [error |-> "none",
              instance |->
                [cls |-> cls,
                 templates |-> loaded.value,
                 template_index |-> 0,
                 document_types |->
                    IF cls = "other" THEN GetDocumentTypes(loaded.value)
                    ELSE <<>>]]

\* The mutant of AdvanceCursor: the cursor stops at the last template.
AdvanceCursorNoWrap(index, n) == IF index + 1 < n THEN index + 1 ELSE index

\* (self.template_index + 1) % len(self.templates)
AdvanceCursor(index, n) == (index + 1) % n

\* The mutant of GetHtmlTemplatePath: the list is rotated instead of the
\* cursor advanced.
GetHtmlTemplatePathRotating(g) ==
    [ret  |-> Head(g.templates),
     self |-> [g EXCEPT !.templates = Append(Tail(g.templates), Head(g.templates))]]

\* get_html_template_path: the returned path and the instance afterwards.
GetHtmlTemplatePath(g) ==
    [ret  |-> PyIndex(g.templates, g.template_index),
     self |-> [g EXCEPT !.template_index =
                            AdvanceCursor(g.template_index, Len(g.templates))]]

\* The mutant of CurrentTemplate: the cursor is read without the -1.
CurrentTemplateAtCursor(g) == PyIndex(g.templates, g.template_index)

\* self.templates[self.template_index - 1]
CurrentTemplate(g) == PyIndex(g.templates, g.template_index - 1)

\* dict.get(key, default)
DictGet(d, key, default) == IF key \in DOMAIN d THEN d[key] ELSE default

\* The if/elif chain of OtherGenerator.generate_fake_data.
RoutineFor(doc_type) ==
    IF doc_type = "drivers_license" THEN "generate_drivers_license_data"
    ELSE IF doc_type = "receipt" THEN "generate_receipt_data"
    ELSE IF doc_type = "letter" THEN "generate_letter_data"
    ELSE IF doc_type = "book_page" THEN "generate_book_page_data"
    ELSE IF doc_type = "invoice" THEN "generate_invoice_data"
    ELSE IF doc_type = "medical" THEN "generate_medical_data"
    ELSE IF doc_type = "bank_statement" THEN "generate_bank_statement_data"
    ELSE IF doc_type = "report_card" THEN "generate_report_card_data"
    ELSE "generate_generic_data"

\* The routine generate_fake_data runs on instance g.  The tax-form and
\* pay-statement generators have one routine each, generate_fake_data
\* itself.
SelectedRoutine(g) ==
    IF g.cls = "other"
    THEN RoutineFor(DictGet(g.document_types, CurrentTemplate(g), "generic"))
    ELSE IF g.cls = "w2" THEN "W2Generator.generate_fake_data"
    ELSE "PaystubGenerator.generate_fake_data"

-----------------------------------------------------------------------------
(* The calls on one generator instance, as changes of the instance's state. *)

\* cls(config): the constructor call.
DoConstruct(cls, scan) ==
    LET made == NewGenerator(cls, scan)
    IN  /\ generator' = made.instance
        /\ ctor_cls' = cls
        /\ ctor_error' = made.error
        /\ listing' = scan
        /\ dispatched' = <<>>
        /\ template_path' = <<>>
        /\ routine' = "none"
        /\ last_call' = "__init__"
        /\ prev_call' = "none"

\* generator.get_html_template_path()
DoGetHtmlTemplatePath ==
    LET call == GetHtmlTemplatePath(generator)
    IN  /\ generator' = call.self
        /\ template_path' = call.ret
        /\ dispatched' = Append(dispatched, call.ret)
        /\ last_call' = "get_html_template_path"
        /\ prev_call' = last_call
        /\ UNCHANGED <<ctor_cls, ctor_error, listing, routine>>

\* generator.generate_fake_data(): the routine it runs.  The routine reads
\* the instance and changes none of its attributes.
DoGenerateFakeData ==
    /\ routine' = SelectedRoutine(generator)
    /\ last_call' = "generate_fake_data"
    /\ prev_call' = last_call
    /\ UNCHANGED <<generator, ctor_cls, ctor_error, listing, dispatched, template_path>>

-----------------------------------------------------------------------------
(* SpecGen: one generator instance driven directly by a caller.            *)

InitGen ==
    /\ generator = NoGenerator
    /\ ctor_cls = "none"
    /\ ctor_error = "none"
    /\ listing = <<>>
    /\ dispatched = <<>>
    /\ template_path = <<>>
    /\ routine = "none"
    /\ last_call = "none"
    /\ prev_call = "none"
    /\ doc_type_arg = "none"
    /\ schedule = <<>>
    /\ completed = <<>>
    /\ pc = "direct"
    /\ count = 0
    /\ i = 0
    /\ attempted = <<>>
    /\ succeeded = {}
    /\ errors = <<>>
    /\ last_raise = "none"
    /\ stdout = <<>>
    /\ field_call = "none"
    /\ draws = <<>>
    /\ data = <<>>
    /\ field_error = "none"
    /\ temp_pdf = "none"
    /\ instances = <<>>
    /\ serialized = FALSE
    /\ callers = <<>>
    /\ returned = <<>>

\* The caller constructs a generator of some class over some directory.
Construct ==
    /\ pc = "direct"
    /\ last_call = "none"
    /\ \E cls \in Classes :
         \E scan \in Listings(DirEntries(cls), MaxTemplates) : DoConstruct(cls, scan)
    /\ UNCHANGED <<mainVars, fieldVars, renderVars, callerVars>>

CallGetHtmlTemplatePath ==
    /\ pc = "direct"
    /\ generator # NoGenerator
    /\ Len(dispatched) < MaxCalls
    /\ DoGetHtmlTemplatePath
    /\ UNCHANGED <<mainVars, fieldVars, renderVars, callerVars>>

CallGenerateFakeData ==
    /\ pc = "direct"
    /\ generator # NoGenerator
    /\ DoGenerateFakeData
    /\ UNCHANGED <<mainVars, fieldVars, renderVars, callerVars>>

NextGen ==
    \/ Construct
    \/ CallGetHtmlTemplatePath
    \/ CallGenerateFakeData

SpecGen == InitGen /\ [][NextGen]_vars

-----------------------------------------------------------------------------
(* Properties of the template registry (checked under SpecGen).            *)

HasGenerator == generator # NoGenerator

\* C1: on a fresh instance with T >= 1 templates the k-th call of
\* get_html_template_path returns templates[(k-1) mod T] (0-based), for every
\* generator class: the returned sequence is 0,1,...,T-1,0,1,... .
C1_RoundRobin ==
    HasGenerator =>
        \A k \in 1..Len(dispatched) :
            dispatched[k] =
                generator.templates[((k - 1) % Len(generator.templates)) + 1]

\* C1 witness: an instance with at least two templates whose cursor has
\* wrapped (more calls than templates).
C1_Witness ==
    /\ HasGenerator
    /\ Len(generator.templates) >= 2
    /\ Len(dispatched) > Len(generator.templates)

\* The '*.html' files among the scanned entries, as paths.
DiscoveredFiles ==
    { JoinPath(TemplatesDir(ctor_cls), e) :
        e \in { x \in Range(listing) : MatchesPattern(x) } }

\* C4: a constructor call whose directory yields no '*.html' file raises the
\* no-templates error and leaves no instance; an instance never has an empty
\* template list.
C4_NoEmptyRegistry ==
    /\ (ctor_cls # "none" /\ DiscoveredFiles = {}) =>
            (ctor_error = NoTemplatesFoundError /\ ~HasGenerator)
    /\ HasGenerator => Len(generator.templates) >= 1

\* C4 witness: a directory that holds an entry, but no template, was
\* scanned and the constructor raised.
C4_Witness ==
    /\ ctor_cls = "other"
    /\ Len(listing) >= 1
    /\ DiscoveredFiles = {}
    /\ ctor_error = NoTemplatesFoundError

\* The scans that return the same entries as scan, in any order.
Reorderings(scan) ==
    { s \in Listings(Range(scan), Len(scan)) : Len(s) = Len(scan) }

\* C6: after construction templates is strictly ascending in string order
\* (sorted, no duplicates) and holds exactly the discovered files; the
\* constructor builds the same list whatever order the scan returned the
\* entries in.
C6_SortedRegistry ==
    HasGenerator =>
        LET ts == generator.templates
        IN  /\ \A a, b \in DOMAIN ts : a < b => StrLess(ts[a], ts[b])
            /\ Range(ts) = DiscoveredFiles
            /\ last_call = "__init__" =>
                   \A other \in Reorderings(listing) :
                       LoadTemplates(ctor_cls, other).value = ts

\* C6 witness: three templates that the scan returned in descending order.
C6_Witness ==
    /\ HasGenerator
    /\ Len(generator.templates) >= 3
    /\ \A a, b \in DOMAIN listing : a < b => StrLess(listing[b], listing[a])

\* The keyword rules in their fixed order.
KeywordRules ==
    << [keyword |-> KwDriversLicense, subtype |-> "drivers_license"],
       [keyword |-> KwReceipt,        subtype |-> "receipt"],
       [keyword |-> KwLetter,         subtype |-> "letter"],
       [keyword |-> KwBook,           subtype |-> "book_page"],
       [keyword |-> KwInvoice,        subtype |-> "invoice"],
       [keyword |-> KwMedical,        subtype |-> "medical"],
       [keyword |-> KwBank,           subtype |-> "bank_statement"],
       [keyword |-> KwReport,         subtype |-> "report_card"] >>

\* The subtype of the earliest rule whose keyword occurs in name, "generic"
\* when none occurs.
FirstMatchSubtype(name) ==
    LET hits == {r \in DOMAIN KeywordRules : Contains(name, KeywordRules[r].keyword)}
    IN  IF hits = {} THEN "generic"
        ELSE KeywordRules[CHOOSE r \in hits : \A q \in hits : r <= q].subtype

\* FirstMatchSubtype of every file name of the model.
ExpectedSubtype == [name \in OtherEntries |-> FirstMatchSubtype(name)]

\* C7: OtherGenerator maps every discovered template to exactly one
\* subtype, that of the first keyword of the ordered list that occurs in the
\* file name, and to "generic" when none occurs.
C7_SubtypeByFirstKeyword ==
    (HasGenerator /\ generator.cls = "other") =>
        /\ DOMAIN generator.document_types = Range(generator.templates)
        /\ \A t \in Range(generator.templates) :
               generator.document_types[t] = ExpectedSubtype[Basename(t)]

\* C7 witness: a template whose name holds two keywords, the later-listed
\* one first in the name, is tagged with the earlier-listed one.
C7_Witness ==
    /\ HasGenerator
    /\ generator.cls = "other"
    /\ \E t \in Range(generator.templates) :
           /\ Contains(Basename(t), KwBank)
           /\ Contains(Basename(t), KwLetter)
           /\ generator.document_types[t] = "letter"

\* The field routine of each subtype.
SubtypeRoutine ==
    [ drivers_license |-> "generate_drivers_license_data",
      receipt         |-> "generate_receipt_data",
      letter          |-> "generate_letter_data",
      book_page       |-> "generate_book_page_data",
      invoice         |-> "generate_invoice_data",
      medical         |-> "generate_medical_data",
      bank_statement  |-> "generate_bank_statement_data",
      report_card     |-> "generate_report_card_data",
      generic         |-> "generate_generic_data" ]

\* generate_fake_data was called right after get_html_template_path on an
\* OtherGenerator.
FieldsRightAfterDispatch ==
    /\ HasGenerator
    /\ generator.cls = "other"
    /\ last_call = "generate_fake_data"
    /\ prev_call = "get_html_template_path"

\* C8: when generate_fake_data is called right after get_html_template_path
\* returned template t, the routine that runs is the one of t's subtype, at
\* every cursor position, the wrap to 0 and T = 1 included.
C8_FieldsMatchDispatched ==
    FieldsRightAfterDispatch =>
        routine = SubtypeRoutine[generator.document_types[template_path]]

\* C8 witness: the call that wrapped the cursor to 0 returned the last of
\* several templates, whose subtype differs from the first template's, and
\* generate_fake_data ran next.
C8_Witness ==
    /\ FieldsRightAfterDispatch
    /\ Len(generator.templates) >= 2
    /\ generator.template_index = 0
    /\ template_path = generator.templates[Len(generator.templates)]
    /\ generator.document_types[template_path] #
           generator.document_types[generator.templates[1]]

-----------------------------------------------------------------------------
(* The orchestrator: main and generate_documents of main_refactored.py.    *)

\* The entries a template directory may hold in a run of main.
BatchEntries(cls) ==
    IF cls = "other"
    THEN { <<"r","e","c","e","i","p","t","_","b","a","n","k",".","h","t","m","l">>,
           <<"m","e","d","i","c","a","l","_","i","n","v","o","i","c","e",".","h","t","m","l">>,
           <<"n","o","t","e","s",".","t","x","t">> }
    ELSE { <<"a",".","h","t","m","l">>,
           <<"b",".","h","t","m","l">> }

DocTypeChoices == {"w2", "paystub", "other", "all"}

\* The generate_documents calls main makes for args.doc_type, in order.
MainSchedule(doc_type) ==
    IF doc_type = "all" THEN <<"w2", "paystub", "other">> ELSE <<doc_type>>

\* The lines generate_documents prints, each with the numbers it carries.
GeneratingLine(n)    == [kind |-> "Generating", nums |-> <<n>>]
ProgressLine(k, n)   == [kind |-> "Generated", nums |-> <<k, n>>]
ErrorLine(k)         == [kind |-> "Error generating", nums |-> <<k>>]
CompletedLine        == [kind |-> "Completed generating", nums |-> <<>>]

\* A progress line is printed after every ProgressEvery-th document.
ProgressEvery == 10

\* The mutant of Propagates: the constructor call is recovered too.
PropagatesNever(step) == FALSE

\* Whether an exception raised at step leaves generate_documents.  The
\* constructor call precedes the try statement; the filename and
\* generate_and_save (dispatch, fields, render, augment, save) are inside
\* it, and its handler catches Exception.
Propagates(step) == step = "construct"

\* The mutant of NextIndexAfterError: the handler ends the loop.
NextIndexAfterErrorBreak(index, n) == n

\* The handler's `continue`: the for loop goes on with the next index.
NextIndexAfterError(index, n) == index + 1

\* The handler's print: one "Error generating" line with the document number.
ErrorsLogged(errs, k) == Append(errs, k)

\* The state after parse_args and setup_output_directories.
Init ==
    /\ generator = NoGenerator
    /\ ctor_cls = "none"
    /\ ctor_error = "none"
    /\ listing = <<>>
    /\ dispatched = <<>>
    /\ template_path = <<>>
    /\ routine = "none"
    /\ last_call = "none"
    /\ prev_call = "none"
    /\ doc_type_arg \in DocTypeChoices
    /\ schedule = MainSchedule(doc_type_arg)
    /\ completed = <<>>
    /\ pc = "main"
    /\ count = 0
    /\ i = 0
    /\ attempted = <<>>
    /\ succeeded = {}
    /\ errors = <<>>
    /\ last_raise = "none"
    /\ stdout = <<>>
    /\ field_call = "none"
    /\ draws = <<>>
    /\ data = <<>>
    /\ field_error = "none"
    /\ temp_pdf = "none"
    /\ instances = <<>>
    /\ serialized = FALSE
    /\ callers = <<>>
    /\ returned = <<>>

\* main calls generate_documents(doc_type, count, ...): the generator is
\* constructed and the "Generating" line printed.  A constructor that
\* raises ends the call, and main with it, before anything is printed.
CallGenerateDocuments ==
    /\ pc = "main"
    /\ schedule # <<>>
    /\ \E n \in 0..MaxCount :
         \E scan \in Listings(BatchEntries(Head(schedule)), MaxBatchTemplates) :
            /\ DoConstruct(Head(schedule), scan)
            /\ count' = n
            /\ i' = 0
            /\ attempted' = <<>>
            /\ succeeded' = {}
            /\ errors' = <<>>
            /\ last_raise' = "none"
            /\ IF NewGenerator(Head(schedule), scan).error = "none"
               THEN /\ stdout' = <<GeneratingLine(n)>>
                    /\ pc' = "loop"
                    /\ UNCHANGED <<schedule, completed>>
               ELSE IF Propagates("construct")
               THEN /\ stdout' = <<>>
                    /\ pc' = "crashed"
                    /\ UNCHANGED <<schedule, completed>>
               ELSE /\ stdout' = <<ErrorLine(0)>>
                    /\ pc' = "returned"
                    /\ schedule' = Tail(schedule)
                    /\ completed' = Append(completed, Head(schedule))
    /\ UNCHANGED doc_type_arg
    /\ UNCHANGED <<fieldVars, renderVars, callerVars>>

\* An exception raised at step of iteration i: the handler prints the error
\* line and the loop continues, unless the exception leaves the function.
Raise(step) ==
    /\ last_raise' = step
    /\ IF Propagates(step)
       THEN /\ pc' = "crashed"
            /\ UNCHANGED <<i, errors, stdout>>
       ELSE /\ errors' = ErrorsLogged(errors, i + 1)
            /\ stdout' = Append(stdout, ErrorLine(i + 1))
            /\ i' = NextIndexAfterError(i, count)
            /\ pc' = "loop"

\* The loop takes the next index; generate_and_save, generate_document and
\* generate_clean_document are entered and get_html_template_path returns.
Dispatch ==
    /\ pc = "loop"
    /\ i < count
    /\ attempted' = Append(attempted, i + 1)
    /\ DoGetHtmlTemplatePath
    /\ pc' = "fields"
    /\ UNCHANGED <<doc_type_arg, schedule, completed, count, i, succeeded,
                   errors, last_raise, stdout>>
    /\ UNCHANGED <<fieldVars, renderVars, callerVars>>

\* generate_fake_data returns the field mapping or raises.
Fields ==
    /\ pc = "fields"
    /\ DoGenerateFakeData
    /\ \/ /\ pc' = "render"
          /\ UNCHANGED <<i, errors, last_raise, stdout>>
       \/ Raise("fields")
    /\ UNCHANGED <<doc_type_arg, schedule, completed, count, attempted, succeeded>>
    /\ UNCHANGED <<fieldVars, renderVars, callerVars>>

\* The statements of render_html_to_image that can raise: reading the
\* template, rendering it with the data, creating the temporary file
\* (NamedTemporaryFile, delete=False), writing the PDF into it, and the
\* conversion of the PDF to an image inside try ... finally.
RenderFailurePoints ==
    {"read_template", "render_template", "create_temp", "write_pdf", "convert"}

\* The temporary PDF after render_html_to_image raised at point: nothing
\* was created before the with statement was entered; the with statement
\* closes the file and leaves it (delete=False); only the finally clause
\* of the conversion unlinks it.
TempPdfAfterFailure(point) ==
    IF point \in {"read_template", "render_template", "create_temp"} THEN "none"
    ELSE IF point = "write_pdf" THEN "exists"
    ELSE "removed"

\* render_html_to_image returns the image, its temporary PDF unlinked by
\* the finally clause, or raises.
Render ==
    /\ pc = "render"
    /\ \/ /\ pc' = "augment"
          /\ temp_pdf' = "removed"
          /\ UNCHANGED <<i, errors, last_raise, stdout>>
       \/ /\ Raise("render")
          /\ \E point \in RenderFailurePoints :
                 temp_pdf' = TempPdfAfterFailure(point)
    /\ UNCHANGED <<genVars, doc_type_arg, schedule, completed, count, attempted,
                   succeeded>>
    /\ UNCHANGED <<fieldVars, callerVars>>

\* apply_augmentation returns the degraded image or raises.
Augment ==
    /\ pc = "augment"
    /\ \/ /\ pc' = "save"
          /\ UNCHANGED <<i, errors, last_raise, stdout>>
       \/ Raise("augment")
    /\ UNCHANGED <<genVars, doc_type_arg, schedule, completed, count, attempted,
                   succeeded>>
    /\ UNCHANGED <<fieldVars, renderVars, callerVars>>

\* save_image returns, generate_and_save returns and the progress line is
\* printed after every tenth document; or save_image raises.
Save ==
    /\ pc = "save"
    /\ \/ /\ succeeded' = succeeded \cup {i + 1}
          /\ stdout' = IF (i + 1) % ProgressEvery = 0
                       THEN Append(stdout, ProgressLine(i + 1, count))
                       ELSE stdout
          /\ i' = i + 1
          /\ pc' = "loop"
          /\ UNCHANGED <<errors, last_raise>>
       \/ /\ Raise("save")
          /\ UNCHANGED succeeded
    /\ UNCHANGED <<genVars, doc_type_arg, schedule, completed, count, attempted>>
    /\ UNCHANGED <<fieldVars, renderVars, callerVars>>

\* The loop is exhausted: the "Completed" line is printed and
\* generate_documents returns (None) to main.
Return ==
    /\ pc = "loop"
    /\ i >= count
    /\ stdout' = Append(stdout, CompletedLine)
    /\ completed' = Append(completed, Head(schedule))
    /\ schedule' = Tail(schedule)
    /\ pc' = "returned"
    /\ UNCHANGED <<genVars, doc_type_arg, count, i, attempted, succeeded, errors,
                   last_raise>>
    /\ UNCHANGED <<fieldVars, renderVars, callerVars>>

\* main goes on after a generate_documents call returned: the generator
\* and the other locals of the call are gone.
MainContinue ==
    /\ pc = "returned"
    /\ pc' = "main"
    /\ generator' = NoGenerator
    /\ ctor_cls' = "none"
    /\ ctor_error' = "none"
    /\ listing' = <<>>
    /\ dispatched' = <<>>
    /\ template_path' = <<>>
    /\ routine' = "none"
    /\ last_call' = "none"
    /\ prev_call' = "none"
    /\ count' = 0
    /\ i' = 0
    /\ attempted' = <<>>
    /\ succeeded' = {}
    /\ errors' = <<>>
    /\ last_raise' = "none"
    /\ stdout' = <<>>
    /\ UNCHANGED <<doc_type_arg, schedule, completed>>
    /\ UNCHANGED <<fieldVars, renderVars, callerVars>>

\* main has made all its calls and returns.
MainExit ==
    /\ pc = "main"
    /\ schedule = <<>>
    /\ pc' = "exit"
    /\ UNCHANGED <<genVars, doc_type_arg, schedule, completed, count, i,
                   attempted, succeeded, errors, last_raise, stdout>>
    /\ UNCHANGED <<fieldVars, renderVars, callerVars>>

Next ==
    \/ CallGenerateDocuments
    \/ Dispatch
    \/ Fields
    \/ Render
    \/ Augment
    \/ Save
    \/ Return
    \/ MainContinue
    \/ MainExit

Spec == Init /\ [][Next]_vars

-----------------------------------------------------------------------------
(* Properties of the orchestrator (checked under Spec).                    *)

\* A generate_documents call whose generator was constructed has returned.
BatchReturned == pc = "returned" /\ ctor_error = "none"

InIteration == pc \in {"fields", "render", "augment", "save"}

\* C2: in generate_documents with count N every document number 1..N is
\* attempted exactly once, in increasing order, whichever attempts raise: a
\* per-document error neither ends the loop nor repeats a number.
C2_EveryIndexOnce ==
    /\ \A k \in DOMAIN attempted : attempted[k] = k
    /\ pc = "loop" => Len(attempted) = i /\ i <= count
    /\ InIteration => Len(attempted) = i + 1 /\ i < count
    /\ BatchReturned => Len(attempted) = count
    /\ \A a, b \in DOMAIN errors : a < b => errors[a] < errors[b]
    /\ Range(errors) \subseteq Range(attempted)

\* C2 witness: a batch of three returned after documents 1 and 2 raised and
\* document 3 was generated.
C2_Witness ==
    /\ BatchReturned
    /\ count = 3
    /\ errors = <<1, 2>>
    /\ succeeded = {3}

\* C3: at the end of a batch of count N the last thing generate_documents
\* tells its caller is the count of succeeded and of failed documents, which
\* add up to N.  (The function has no return statement; what it prints is
\* all the caller gets.)
C3_FinalCountReported ==
    BatchReturned =>
        stdout[Len(stdout)].nums = <<Cardinality(succeeded), Len(errors)>>

\* The document numbers of the error lines of stdout, in order.
RECURSIVE ErrorLineNumbers(_)
ErrorLineNumbers(lines) ==
    IF lines = <<>> THEN <<>>
    ELSE IF Head(lines).kind = "Error generating"
         THEN <<Head(lines).nums[1]>> \o ErrorLineNumbers(Tail(lines))
         ELSE ErrorLineNumbers(Tail(lines))

\* What a returned batch of count N does tell: the documents whose
\* generate_and_save returned and the "Error generating" lines add up to N,
\* no document is in both, and the final "Completed" line carries no count.
C3_OutcomesAddUp ==
    BatchReturned =>
        /\ Cardinality(succeeded) + Len(errors) = count
        /\ succeeded \cap Range(errors) = {}
        /\ ErrorLineNumbers(stdout) = errors
        /\ stdout[Len(stdout)] = CompletedLine

\* The batch of five in which only document 3 raised, during render: it
\* returned with four documents generated and one error line.
C3_OnlyThirdRaised ==
    /\ BatchReturned
    /\ count = 5
    /\ last_raise = "render"
    /\ errors = <<3>>
    /\ succeeded = {1, 2, 4, 5}

\* C5: a constructor that raises ends generate_documents and main: no
\* document of the class is attempted, no error line is printed for it, the
\* class and the classes scheduled after it are never generated (nothing
\* runs any more); an exception raised inside an iteration never ends main.
C5_ConstructionFailureFatal ==
    /\ ctor_error # "none" =>
          /\ pc = "crashed"
          /\ attempted = <<>>
          /\ errors = <<>>
          /\ stdout = <<>>
          /\ schedule # <<>>
          /\ Head(schedule) = ctor_cls
          /\ Range(schedule) \cap Range(completed) = {}
          /\ ~ENABLED Next
    /\ pc = "crashed" => ctor_error # "none" /\ last_raise = "none"

\* C5 witness: in 'all' mode the tax forms were generated, the
\* pay-statement constructor found no template, and main ended with the
\* pay statements and the miscellaneous documents still scheduled.
C5_Witness ==
    /\ pc = "crashed"
    /\ doc_type_arg = "all"
    /\ ctor_error = NoTemplatesFoundError
    /\ completed = <<"w2">>
    /\ schedule = <<"paystub", "other">>

-----------------------------------------------------------------------------
(* Amounts of money and their formatting.                                  *)
(*                                                                         *)
(* The field routines compute with Python floats and format each value on  *)
(* its own with f"{x:.2f}".  An amount is kept here exactly, as whole      *)
(* cents c and a fraction f of a cent in millionths (the value is          *)
(* c + f / Micro cents, 0 <= f < Micro, so c is the floor also of a        *)
(* negative amount).  Every product the sampled draws below can form is    *)
(* exact at this resolution; a float differs from it by less than 1e-9     *)
(* cents, which changes a formatted value only at an exact tie.            *)

\* The number of fractions of a cent an amount distinguishes.
Micro == 1000000

Amount(c, f) == [c |-> c + (f \div Micro), f |-> f % Micro]

\* An amount of n whole cents.
Cents(n) == Amount(n, 0)

\* An amount of g ten-thousandths of a dollar.
Pips(g) == Amount(g \div 100, (g % 100) * 10000)

\* An amount of h thousandths of a dollar.
Mills(h) == Amount(h \div 10, (h % 10) * 100000)

\* a + b and a - b on floats.
Add(a, b) == Amount(a.c + b.c, a.f + b.f)
Sub(a, b) == Amount(a.c - b.c, a.f - b.f)

\* amount * rate on floats: g in ten-thousandths of a dollar, the rate p in
\* ten-thousandths, the product in millionths of a cent, formed in two
\* parts to stay within the integers of the checker.
MulRate(g, p) ==
    LET whole == (g \div 10000) * p
        low   == (whole % 100) * 10000 + (g % 10000) * p
    IN  Amount(whole \div 100, low)

\* x > 0 on a float.
IsPositive(a) == a.c > 0 \/ (a.c = 0 /\ a.f > 0)

Abs(n) == IF n < 0 THEN -n ELSE n

\* The whole number of cents ".2f" prints: the nearest, an exactly
\* representable tie going to the even neighbour.
RoundCents(a) ==
    IF 2 * a.f > Micro THEN a.c + 1
    ELSE IF 2 * a.f < Micro THEN a.c
    ELSE IF a.c % 2 = 0 THEN a.c ELSE a.c + 1

Digits == <<"0", "1", "2", "3", "4", "5", "6", "7", "8", "9">>

\* str(n) for a natural number n, as a sequence of characters.
RECURSIVE NatStr(_)
NatStr(n) ==
    IF n < 10 THEN <<Digits[n + 1]>>
    ELSE Append(NatStr(n \div 10), Digits[(n % 10) + 1])

\* f"{x:.2f}": an optional sign, the whole part, a point and two digits.
\* A negative amount keeps its sign also when it rounds to zero.
Format2f(a) ==
    LET m == Abs(RoundCents(a))
    IN  (IF a.c < 0 THEN <<"-">> ELSE <<>>)
        \o NatStr(m \div 100) \o <<".">>
        \o <<Digits[((m % 100) \div 10) + 1], Digits[(m % 10) + 1]>>

\* f"{x:.1f}" of a number of hours given in tenths.
Format1f(tenths) ==
    NatStr(tenths \div 10) \o <<".">> \o <<Digits[(tenths % 10) + 1]>>

\* f"{x:.1%}" of a rate given in ten-thousandths: the percentage with one
\* decimal, rounded as ".2f" rounds.
FormatPercent1(p) ==
    LET q == p \div 10
        r == p % 10
        t == IF r > 5 THEN q + 1
             ELSE IF r < 5 THEN q
             ELSE IF q % 2 = 0 THEN q ELSE q + 1
    IN  NatStr(t \div 10) \o <<".">> \o <<Digits[(t % 10) + 1]>> \o <<"%">>

-----------------------------------------------------------------------------
(* PaystubGenerator: the amounts of a pay statement and their fields       *)
(* (hourly_rate to net_pay), followed by the year-to-date figures.         *)
(*                                                                         *)
(* The sets below are the values the random module returns in the model:   *)
(* a few values of each range the code samples.  Hourly rates are in       *)
(* cents, hours in tenths, rates in ten-thousandths and the flat health    *)
(* insurance in thousandths of a dollar.  The text fields (names,          *)
(* addresses, dates, colours) do not enter any amount and are left out of  *)
(* the mapping.                                                            *)

PayFrequencies == {"weekly", "bi-weekly", "semi-monthly", "monthly"}

\* pay_frequency.title()
Title(pay_frequency) ==
    CASE pay_frequency = "weekly"       -> "Weekly"
      [] pay_frequency = "bi-weekly"    -> "Bi-Weekly"
      [] pay_frequency = "semi-monthly" -> "Semi-Monthly"
      [] pay_frequency = "monthly"      -> "Monthly"

\* random.uniform(15, 45)
HourlyRates == {1503, 2000, 4499}

\* random.uniform(35, 40), (70, 80), (75, 85), (150, 170)
RegularHours(pay_frequency) ==
    CASE pay_frequency = "weekly"       -> {357, 400}
      [] pay_frequency = "bi-weekly"    -> {701, 799}
      [] pay_frequency = "semi-monthly" -> {751, 849}
      [] pay_frequency = "monthly"      -> {1501, 1699}

\* random.uniform(0, 8), (0, 16), (0, 12), (0, 20)
OvertimeHours(pay_frequency) ==
    CASE pay_frequency = "weekly"       -> {0, 23}
      [] pay_frequency = "bi-weekly"    -> {0, 157}
      [] pay_frequency = "semi-monthly" -> {0, 113}
      [] pay_frequency = "monthly"      -> {0, 197}

\* random.uniform(0.15, 0.25)
FederalTaxRates == {1507, 2497}
\* random.uniform(0.03, 0.08), for the state tax and for the retirement
StateTaxRates == {307, 799}
RetirementRates == {799}
\* random.uniform(50, 300)
HealthInsuranceAmounts == {123456, 299990}
\* The fixed FICA and Medicare rates.
SocialSecurityRate == 620
MedicareRate == 145

\* periods_in_year
PeriodsInYear(pay_frequency) ==
    CASE pay_frequency = "weekly"       -> 52
      [] pay_frequency = "bi-weekly"    -> 26
      [] pay_frequency = "semi-monthly" -> 24
      [] pay_frequency = "monthly"      -> 12

\* random.randint(1, periods_in_year[pay_frequency]): the two ends
PeriodsElapsed(pay_frequency) == {1, PeriodsInYear(pay_frequency)}

\* random.uniform(0.85, 1.15), in hundredths
VarianceUnit == 100
Variances == {87, 113}

\* "uniform(...) if random.random() > t else 0": the value is drawn only
\* when the condition holds.
OptionalDraw(values) ==
    {[taken |-> FALSE, value |-> 0]} \cup {[taken |-> TRUE, value |-> v] : v \in values}

\* What the random module can return to one generate_fake_data call.
PaystubDraws ==
    UNION { { [pay_frequency |-> pf, hourly_rate |-> hr, regular_hours |-> rh,
               overtime_hours |-> oh, federal_rate |-> fr, state_rate |-> sr,
               health_insurance |-> hi, retirement |-> rt,
               periods_elapsed |-> pe, variance |-> va] :
                 hr \in HourlyRates, rh \in RegularHours(pf),
                 oh \in OvertimeHours(pf), fr \in FederalTaxRates,
                 sr \in StateTaxRates,
                 hi \in OptionalDraw(HealthInsuranceAmounts),
                 rt \in OptionalDraw(RetirementRates),
                 pe \in PeriodsElapsed(pf), va \in Variances } :
            pf \in PayFrequencies }

\* The mutant of GeneratePayAmounts: overtime is paid at the plain rate.
GeneratePayAmountsFlatOvertime(hourly_rate, regular_hours, overtime_hours) ==
    [regular_pay |-> regular_hours * hourly_rate * 10,
     overtime_pay |-> overtime_hours * hourly_rate * 10,
     gross_pay |-> regular_hours * hourly_rate * 10
                   + overtime_hours * hourly_rate * 10]

\* generate_pay_amounts: the three amounts in ten-thousandths of a dollar
\* (cents * tenths of an hour * 10, and * 15 with the factor 1.5).
GeneratePayAmounts(hourly_rate, regular_hours, overtime_hours) ==
    LET regular_pay  == regular_hours * hourly_rate * 10
        overtime_pay == overtime_hours * hourly_rate * 15
    IN  [regular_pay |-> regular_pay, overtime_pay |-> overtime_pay,
         gross_pay |-> regular_pay + overtime_pay]

\* total_deductions, summed left to right.
TotalDeductions(fed, state, ss, med, health, ret) ==
    Add(Add(Add(Add(Add(fed, state), ss), med), health), ret)

\* net_pay = gross_pay - total_deductions, on the unrounded amounts.
NetPay(gross_pay, total_deductions) == Sub(Pips(gross_pay), total_deductions)

\* generate_realistic_payroll_amounts(gross_pay), d the draws of the call.
GenerateRealisticPayrollAmounts(gross_pay, d) ==
    LET federal_tax      == MulRate(gross_pay, d.federal_rate)
        state_tax        == MulRate(gross_pay, d.state_rate)
        social_security  == MulRate(gross_pay, SocialSecurityRate)
        medicare         == MulRate(gross_pay, MedicareRate)
        health_insurance == IF d.health_insurance.taken
                            THEN Mills(d.health_insurance.value) ELSE Cents(0)
        retirement       == IF d.retirement.taken
                            THEN MulRate(gross_pay, d.retirement.value) ELSE Cents(0)
        total_deductions == TotalDeductions(federal_tax, state_tax, social_security,
                                            medicare, health_insurance, retirement)
    IN  [federal_tax |-> federal_tax, state_tax |-> state_tax,
         social_security |-> social_security, medicare |-> medicare,
         health_insurance |-> health_insurance, retirement |-> retirement,
         total_deductions |-> total_deductions,
         net_pay |-> NetPay(gross_pay, total_deductions)]

\* A year-to-date amount: c cents and f parts of a cent, a part being
\* 1/VarianceUnit of a millionth.
YtdAmount(c, f) ==
    [c |-> c + (f \div (VarianceUnit * Micro)), f |-> f % (VarianceUnit * Micro)]

\* amount * periods_elapsed on floats.
TimesPeriods(a, periods_elapsed) ==
    Amount(a.c * periods_elapsed, a.f * periods_elapsed)

\* amount * variance on floats, the variance in hundredths.
TimesVariance(a, variance) ==
    LET whole == a.c * variance
    IN  YtdAmount(whole \div VarianceUnit,
                  (whole % VarianceUnit) * Micro + a.f * variance)

\* The mutant of GenerateYtdAmounts: the variance is applied to ytd_gross
\* alone.
GenerateYtdAmountsGrossOnly(payroll_amounts, periods_elapsed, variance) ==
    [ytd_gross |->
        TimesVariance(TimesPeriods(payroll_amounts.gross_pay, periods_elapsed), variance),
     ytd_federal_tax |->
        TimesVariance(TimesPeriods(payroll_amounts.federal_tax, periods_elapsed), VarianceUnit),
     ytd_net |->
        TimesVariance(TimesPeriods(payroll_amounts.net_pay, periods_elapsed), VarianceUnit)]

\* generate_ytd_amounts(payroll_amounts, periods_elapsed), variance the
\* multiplier it draws: each figure is amount * periods_elapsed * variance.
GenerateYtdAmounts(payroll_amounts, periods_elapsed, variance) ==
    [ytd_gross |->
        TimesVariance(TimesPeriods(payroll_amounts.gross_pay, periods_elapsed), variance),
     ytd_federal_tax |->
        TimesVariance(TimesPeriods(payroll_amounts.federal_tax, periods_elapsed), variance),
     ytd_net |->
        TimesVariance(TimesPeriods(payroll_amounts.net_pay, periods_elapsed), variance)]

\* f"{x:.2f}" of a year-to-date amount.
FormatYtd2f(y) ==
    LET half == (VarianceUnit * Micro) \div 2
        n == IF y.f > half THEN y.c + 1
             ELSE IF y.f < half THEN y.c
             ELSE IF y.c % 2 = 0 THEN y.c ELSE y.c + 1
        m == Abs(n)
    IN  (IF y.c < 0 THEN <<"-">> ELSE <<>>)
        \o NatStr(m \div 100) \o <<".">>
        \o <<Digits[((m % 100) \div 10) + 1], Digits[(m % 10) + 1]>>

\* payroll_amounts after payroll_amounts['gross_pay'] = gross_pay.
PayrollAmounts(d) ==
    LET pay == GeneratePayAmounts(d.hourly_rate, d.regular_hours, d.overtime_hours)
        payroll_amounts == GenerateRealisticPayrollAmounts(pay.gross_pay, d)
    IN  [gross_pay |-> Pips(pay.gross_pay),
         federal_tax |-> payroll_amounts.federal_tax,
         net_pay |-> payroll_amounts.net_pay]

\* hourly_rate * 1.5, the rate in cents.
OvertimeRate(hourly_rate) ==
    Amount((3 * hourly_rate) \div 2, ((3 * hourly_rate) % 2) * (Micro \div 2))

\* f"{x:.2f}" if x > 0 else "": an optional deduction that was not taken is
\* the empty string.
FormatOptional(a) == IF IsPositive(a) THEN Format2f(a) ELSE <<>>

\* PaystubGenerator.generate_fake_data: the mapping returned for the draws d.
PaystubGenerateFakeData(d) ==
    LET pay == GeneratePayAmounts(d.hourly_rate, d.regular_hours, d.overtime_hours)
        payroll_amounts == GenerateRealisticPayrollAmounts(pay.gross_pay, d)
        ytd_amounts == GenerateYtdAmounts(PayrollAmounts(d), d.periods_elapsed,
                                          d.variance)
    IN  [pay_frequency    |-> Title(d.pay_frequency),
         hourly_rate      |-> Format2f(Cents(d.hourly_rate)),
         regular_hours    |-> Format1f(d.regular_hours),
         regular_pay      |-> Format2f(Pips(pay.regular_pay)),
         overtime_hours   |-> Format1f(d.overtime_hours),
         overtime_rate    |-> Format2f(OvertimeRate(d.hourly_rate)),
         overtime_pay     |-> Format2f(Pips(pay.overtime_pay)),
         gross_pay        |-> Format2f(Pips(pay.gross_pay)),
         federal_tax      |-> Format2f(payroll_amounts.federal_tax),
         state_tax        |-> Format2f(payroll_amounts.state_tax),
         social_security  |-> Format2f(payroll_amounts.social_security),
         medicare         |-> Format2f(payroll_amounts.medicare),
         health_insurance |-> FormatOptional(payroll_amounts.health_insurance),
         retirement       |-> FormatOptional(payroll_amounts.retirement),
         total_deductions |-> Format2f(payroll_amounts.total_deductions),
         net_pay          |-> Format2f(payroll_amounts.net_pay),
         ytd_gross        |-> FormatYtd2f(ytd_amounts.ytd_gross),
         ytd_net          |-> FormatYtd2f(ytd_amounts.ytd_net),
         ytd_federal_tax  |-> FormatYtd2f(ytd_amounts.ytd_federal_tax)]

-----------------------------------------------------------------------------
(* OtherGenerator: the amounts of a receipt and of an invoice.             *)

\* random.randint(2, 8) items on a receipt: the least number, and the
\* largest the model draws.
MinItems == 2
MaxItems == 3
\* random.randint(1, 4) services on an invoice, likewise.
MinServices == 1
MaxServices == 2

\* random.randint(1, 4)
ItemQuantities == {1, 3}
\* round(random.uniform(1.99, 89.99), 2), in cents
ItemPrices == {199, 2549, 8999}
\* random.uniform(0.06, 0.12), in ten-thousandths
ReceiptTaxRates == {601, 827, 1199}
\* random.randint(5, 40)
ServiceHours == {5, 40}
\* round(random.uniform(50, 150), 2), in cents
ServiceRates == {5000, 14999}

\* The lists of lo..hi elements of S.
SeqsOf(S, lo, hi) == UNION { [1..n -> S] : n \in lo..hi }

\* A value of type float left unformatted in a mapping, where every str is
\* its sequence of characters: the pair of the type's name and the number
\* (in cents).
PyFloat(cents) == <<"float", cents>>

FloatValue(v) == v[2]

\* One item of generate_receipt_items.  Its total is round(quantity *
\* price, 2): a float, not a formatted string.
ReceiptItem(quantity, price) ==
    [quantity |-> quantity, price |-> Format2f(Cents(price)),
     total |-> PyFloat(quantity * price)]

\* generate_receipt_items: what one call can return.
GenerateReceiptItems ==
    SeqsOf({ReceiptItem(q, p) : q \in ItemQuantities, p \in ItemPrices},
           MinItems, MaxItems)

\* sum(item['total'] for item in items), in cents
RECURSIVE SumTotals(_)
SumTotals(items) ==
    IF items = <<>> THEN 0
    ELSE FloatValue(Head(items).total) + SumTotals(Tail(items))

\* tax = subtotal * tax_rate
ReceiptTax(subtotal, tax_rate) == MulRate(subtotal * 100, tax_rate)

\* The mutant of ReceiptTotal: the tax is left out of the total.
ReceiptTotalTaxOmitted(subtotal, tax) == Cents(subtotal)

\* total = subtotal + tax
ReceiptTotal(subtotal, tax) == Add(Cents(subtotal), tax)

\* generate_receipt_data, for the items and the tax rate drawn.
GenerateReceiptData(items, tax_rate) ==
    LET subtotal == SumTotals(items)
        tax      == ReceiptTax(subtotal, tax_rate)
        total    == ReceiptTotal(subtotal, tax)
    IN  [items    |-> items,
         subtotal |-> Format2f(Cents(subtotal)),
         tax_rate |-> FormatPercent1(tax_rate),
         tax      |-> Format2f(tax),
         total    |-> Format2f(total)]

\* One service of generate_invoice_services: total = hours * rate.
InvoiceService(hours, rate) ==
    [hours |-> hours, rate |-> Format2f(Cents(rate)),
     total |-> Format2f(Cents(hours * rate))]

\* generate_invoice_services: what one call can return.
GenerateInvoiceServices ==
    SeqsOf({InvoiceService(h, r) : h \in ServiceHours, r \in ServiceRates},
           MinServices, MaxServices)

\* generate_invoice_data: the three totals are the literal '0'.
GenerateInvoiceData(services) ==
    [services |-> services, subtotal |-> <<"0">>, tax |-> <<"0">>,
     total |-> <<"0">>]

-----------------------------------------------------------------------------
(* The field routines, called one at a time.                               *)
(*                                                                         *)
(* generate_clean_document calls generate_fake_data, hands the mapping to  *)
(* render_html_to_image and drops it.                                      *)

InitFields ==
    /\ generator = NoGenerator
    /\ ctor_cls = "none"
    /\ ctor_error = "none"
    /\ listing = <<>>
    /\ dispatched = <<>>
    /\ template_path = <<>>
    /\ routine = "none"
    /\ last_call = "none"
    /\ prev_call = "none"
    /\ doc_type_arg = "none"
    /\ schedule = <<>>
    /\ completed = <<>>
    /\ pc = "fields only"
    /\ count = 0
    /\ i = 0
    /\ attempted = <<>>
    /\ succeeded = {}
    /\ errors = <<>>
    /\ last_raise = "none"
    /\ stdout = <<>>
    /\ field_call = "none"
    /\ draws = <<>>
    /\ data = <<>>
    /\ field_error = "none"
    /\ temp_pdf = "none"
    /\ instances = <<>>
    /\ serialized = FALSE
    /\ callers = <<>>
    /\ returned = <<>>

CallPaystubGenerateFakeData ==
    /\ field_call = "none"
    /\ \E d \in PaystubDraws :
         /\ draws' = d
         /\ data' = PaystubGenerateFakeData(d)
    /\ field_call' = "paystub"
    /\ field_error' = "none"
    /\ UNCHANGED <<genVars, mainVars, renderVars, callerVars>>

CallGenerateReceiptData ==
    /\ field_call = "none"
    /\ \E items \in GenerateReceiptItems, tax_rate \in ReceiptTaxRates :
         /\ draws' = [items |-> items, tax_rate |-> tax_rate]
         /\ data' = GenerateReceiptData(items, tax_rate)
    /\ field_call' = "receipt"
    /\ field_error' = "none"
    /\ UNCHANGED <<genVars, mainVars, renderVars, callerVars>>

CallGenerateInvoiceData ==
    /\ field_call = "none"
    /\ \E services \in GenerateInvoiceServices :
         /\ draws' = [services |-> services]
         /\ data' = GenerateInvoiceData(services)
    /\ field_call' = "invoice"
    /\ field_error' = "none"
    /\ UNCHANGED <<genVars, mainVars, renderVars, callerVars>>

\* The mapping has been rendered; the caller holds no reference to it.
DropData ==
    /\ field_call # "none"
    /\ field_call' = "none"
    /\ draws' = <<>>
    /\ data' = <<>>
    /\ field_error' = "none"
    /\ UNCHANGED <<genVars, mainVars, renderVars, callerVars>>

-----------------------------------------------------------------------------
(* OtherGenerator.generate_drivers_license_data: the dates and the license *)
(* number.                                                                 *)

\* A datetime.date.
Date(y, m, d) == [year |-> y, month |-> m, day |-> d]

IsLeap(y) == (y % 4 = 0 /\ y % 100 # 0) \/ y % 400 = 0

DaysInMonth(y, m) ==
    IF m = 2 THEN (IF IsLeap(y) THEN 29 ELSE 28)
    ELSE IF m \in {4, 6, 9, 11} THEN 30 ELSE 31

\* The number of days of year y before its month m.
RECURSIVE DaysBeforeMonth(_, _)
DaysBeforeMonth(y, m) ==
    IF m = 1 THEN 0 ELSE DaysBeforeMonth(y, m - 1) + DaysInMonth(y, m - 1)

\* date.toordinal(): the days from 0001-01-01 on, counted from 1.
ToOrdinal(date) ==
    LET y == date.year - 1
    IN  365 * y + (y \div 4) - (y \div 100) + (y \div 400)
        + DaysBeforeMonth(date.year, date.month) + date.day

\* date.replace(year=y): raises ValueError when the day does not exist in
\* the month of year y.
ReplaceYear(date, y) ==
    IF date.day <= DaysInMonth(y, date.month)
    THEN [error |-> "none", value |-> Date(y, date.month, date.day)]
    ELSE [error |-> "ValueError", value |-> date]

\* strftime('%m/%d/%Y')
StrfDate(date) ==
       <<Digits[(date.month \div 10) + 1], Digits[(date.month % 10) + 1]>>
    \o <<"/">>
    \o <<Digits[(date.day \div 10) + 1], Digits[(date.day % 10) + 1]>>
    \o <<"/">>
    \o NatStr(date.year)

\* The days that 'today' is in the model.
Todays == {Date(2023, 6, 15), Date(2024, 2, 29), Date(2026, 11, 3)}

\* The dates the model draws issue dates from.
SampledDates ==
    {Date(2020, 2, 29), Date(2021, 11, 4), Date(2022, 12, 31), Date(2024, 2, 28),
     Date(2024, 2, 29), Date(2024, 3, 1), Date(2026, 1, 31)}

\* The days that '-5y' goes back from today.
IssueWindowDays == 5 * 365

\* fake.date_between(start_date='-5y', end_date='today')
IssueDates(today) ==
    {date \in SampledDates :
        /\ ToOrdinal(today) - IssueWindowDays <= ToOrdinal(date)
        /\ ToOrdinal(date) <= ToOrdinal(today)}

\* random.choice([4, 5, 8])
ExpiryOffsets == {4, 5, 8}

\* The states and the formats of their license numbers.
LicenseStates ==
    {
       [name |-> "California", abbr |-> "CA",
        format |-> <<"A", "1", "2", "3", "4", "5", "6", "7">>],
       [name |-> "Texas", abbr |-> "TX",
        format |-> <<"1", "2", "3", "4", "5", "6", "7", "8">>],
       [name |-> "Florida", abbr |-> "FL",
        format |-> <<"A", "1", "2", "3", "-", "4", "5", "6", "-", "7", "8", "-", "9", "0", "1", "-", "0">>],
       [name |-> "New York", abbr |-> "NY",
        format |-> <<"1", "2", "3", "4", "5", "6", "7", "8", "9">>],
       [name |-> "Pennsylvania", abbr |-> "PA",
        format |-> <<"1", "2", " ", "3", "4", "5", " ", "6", "7", "8">>],
       [name |-> "Illinois", abbr |-> "IL",
        format |-> <<"A", "1", "2", "3", "-", "4", "5", "6", "7", "-", "8", "9", "0", "1">>],
       [name |-> "Ohio", abbr |-> "OH",
        format |-> <<"A", "B", "1", "2", "3", "4", "5", "6">>]
    }

UpperCaseLetters ==
    <<"A", "B", "C", "D", "E", "F", "G", "H", "I", "J", "K", "L", "M",
      "N", "O", "P", "Q", "R", "S", "T", "U", "V", "W", "X", "Y", "Z">>

\* str.isalpha() and str.isdigit() on one character of a format.
IsAlpha(ch) == ch \in Range(UpperCaseLetters)
IsDigit(ch) == ch \in Range(Digits)

\* What random.choice('ABC...Z') and random.randint(0, 9) return along one
\* license number: the value for the character at position p is the
\* (p mod length)-th of the stream.
LetterStreams == {<<"A">>, <<"Z", "Q">>, <<"M", "A", "Z">>}
DigitStreams == {<<0>>, <<9, 0>>, <<5, 7, 1, 3>>}

DrawAt(stream, p) == stream[((p - 1) % Len(stream)) + 1]

\* The mutant of LicenseCharacter: a separator is replaced by a digit too.
LicenseCharacterNoSeparators(char, letter, digit) ==
    IF IsAlpha(char) THEN letter ELSE Digits[digit + 1]

\* One pass of the loop over the format: a letter for a letter, str(digit)
\* for a digit, any other character itself.
LicenseCharacter(char, letter, digit) ==
    IF IsAlpha(char) THEN letter
    ELSE IF IsDigit(char) THEN Digits[digit + 1]
    ELSE char

LicenseNumber(format, letters, digits) ==
    [p \in 1..Len(format) |->
        LicenseCharacter(format[p], DrawAt(letters, p), DrawAt(digits, p))]

\* What the random module and faker can return to one call.
DriversLicenseDraws ==
    UNION { { [today |-> today, state |-> st, issue_date |-> issue,
               offset |-> off, letters |-> ls, digits |-> ds] :
                 st \in LicenseStates, issue \in IssueDates(today),
                 off \in ExpiryOffsets, ls \in LetterStreams,
                 ds \in DigitStreams } :
            today \in Todays }

\* generate_drivers_license_data for the draws d: the exception raised, or
\* the mapping returned.
GenerateDriversLicenseData(d) ==
    LET exp_date == ReplaceYear(d.issue_date, d.issue_date.year + d.offset)
    IN  IF exp_date.error # "none"
        THEN [error |-> exp_date.error, value |-> <<>>]
        ELSE [error |-> "none",
              value |-> [state_name     |-> d.state.name,
                         state_abbr     |-> d.state.abbr,
                         license_number |-> LicenseNumber(d.state.format,
                                                          d.letters, d.digits),
                         state          |-> d.state.abbr,
                         issue_date     |-> StrfDate(d.issue_date),
                         exp_date       |-> StrfDate(exp_date.value)]]

CallGenerateDriversLicenseData ==
    /\ field_call = "none"
    /\ \E d \in DriversLicenseDraws :
         LET result == GenerateDriversLicenseData(d)
         IN  /\ draws' = d
             /\ data' = result.value
             /\ field_error' = result.error
    /\ field_call' = "drivers_license"
    /\ UNCHANGED <<genVars, mainVars, renderVars, callerVars>>

-----------------------------------------------------------------------------
(* W2Generator.generate_fake_data: the amounts of a tax form.  The         *)
(* identifiers, names, addresses and the tax year enter no amount and are  *)
(* left out of the mapping.                                                *)

\* The digits of a whole part in groups of three, separated by commas.
RECURSIVE GroupThousands(_)
GroupThousands(digits) ==
    IF Len(digits) <= 3 THEN digits
    ELSE GroupThousands(SubSeq(digits, 1, Len(digits) - 3))
         \o <<",">> \o SubSeq(digits, Len(digits) - 2, Len(digits))

\* f"{x:,.2f}": ".2f" with the whole part grouped.
Format2fComma(a) ==
    LET s    == Format2f(a)
        body == IF a.c < 0 THEN Tail(s) ELSE s
    IN  (IF a.c < 0 THEN <<"-">> ELSE <<>>)
        \o GroupThousands(SubSeq(body, 1, Len(body) - 3))
        \o SubSeq(body, Len(body) - 2, Len(body))

\* An amount of n whole dollars.
Dollars(n) == Cents(100 * n)

\* random.randint(30000, 150000)
AnnualWages == {30000, 87654, 150000}
\* random.uniform(0.18, 0.28), in ten-thousandths
W2FederalTaxRates == {1801, 2799}
\* random.uniform(0.03, 0.08)
W2StateTaxRates == {301, 799}
\* random.uniform(0.01, 0.03)
LocalTaxRates == {101, 299}
\* random.randint(0, 5000) and random.randint(0, 10000)
DependentCareBenefits == {0, 1234, 5000}
NonqualifiedPlans == {10000}
\* The 2023 social security wage base.
SocialSecurityWageBase == 160200

\* What the random module can return to one generate_fake_data call.
W2Draws ==
    { [annual_wages |-> w, federal_tax_rate |-> fr, state_tax_rate |-> sr,
       dependent_care |-> dc, nonqualified |-> nq, local_wages |-> lw,
       local_tax |-> lt] :
         w \in AnnualWages, fr \in W2FederalTaxRates, sr \in W2StateTaxRates,
         dc \in OptionalDraw(DependentCareBenefits),
         nq \in OptionalDraw(NonqualifiedPlans),
         lw \in BOOLEAN, lt \in OptionalDraw(LocalTaxRates) }

\* The mutant of SocialSecurityWages: two digits of the wage base are
\* transposed.
SocialSecurityWagesLowBase(annual_wages) == Min(annual_wages, 106200)

\* social_security_wages = min(annual_wages, 160200)
SocialSecurityWages(annual_wages) == Min(annual_wages, SocialSecurityWageBase)

\* The literal "0.00".
ZeroAmountText == <<"0", ".", "0", "0">>

\* W2Generator.generate_fake_data: the mapping returned for the draws d.
W2GenerateFakeData(d) ==
    LET annual_wages          == d.annual_wages
        wages_pips            == annual_wages * 10000
        federal_withholding   == MulRate(wages_pips, d.federal_tax_rate)
        state_withholding     == MulRate(wages_pips, d.state_tax_rate)
        social_security_wages == SocialSecurityWages(annual_wages)
        social_security_tax   == MulRate(social_security_wages * 10000,
                                         SocialSecurityRate)
        medicare_tax          == MulRate(wages_pips, MedicareRate)
    IN  [wages                   |-> Format2fComma(Dollars(annual_wages)),
         federal_tax_withheld    |-> Format2fComma(federal_withholding),
         social_security_wages   |-> Format2fComma(Dollars(social_security_wages)),
         social_security_tax     |-> Format2fComma(social_security_tax),
         medicare_wages          |-> Format2fComma(Dollars(annual_wages)),
         medicare_tax            |-> Format2fComma(medicare_tax),
         social_security_tips    |-> ZeroAmountText,
         allocated_tips          |-> ZeroAmountText,
         dependent_care_benefits |-> IF d.dependent_care.taken
                                     THEN Format2fComma(Dollars(d.dependent_care.value))
                                     ELSE ZeroAmountText,
         nonqualified_plans      |-> IF d.nonqualified.taken
                                     THEN Format2fComma(Dollars(d.nonqualified.value))
                                     ELSE ZeroAmountText,
         state_wages             |-> Format2fComma(Dollars(annual_wages)),
         state_tax_withheld      |-> Format2fComma(state_withholding),
         local_wages             |-> IF d.local_wages
                                     THEN Format2fComma(Dollars(annual_wages))
                                     ELSE <<>>,
         local_tax               |-> IF d.local_tax.taken
                                     THEN Format2fComma(MulRate(wages_pips, d.local_tax.value))
                                     ELSE <<>>]

CallW2GenerateFakeData ==
    /\ field_call = "none"
    /\ \E d \in W2Draws :
         /\ draws' = d
         /\ data' = W2GenerateFakeData(d)
    /\ field_call' = "w2"
    /\ field_error' = "none"
    /\ UNCHANGED <<genVars, mainVars, renderVars, callerVars>>

-----------------------------------------------------------------------------
(* generate_documents: the name and the path of the image of document      *)
(* i + 1 (the first two statements of the loop body).                      *)

FilenameWidth == 4

RECURSIVE Zeros(_)
Zeros(n) == IF n <= 0 THEN <<>> ELSE <<"0">> \o Zeros(n - 1)

\* The mutant of Zfill: no padding.
ZfillUnpadded(s, width) == s

\* str.zfill(width) of a string of digits: zeros are put in front until the
\* string is width characters long; a longer string is returned as it is.
Zfill(s, width) == Zeros(width - Len(s)) \o s

SyntheticPrefix == <<"s","y","n","t","h","e","t","i","c","_">>

DotJpg == <<".","j","p","g">>

DocTypeChars(doc_type) ==
    CASE doc_type = "w2"      -> <<"w","2">>
      [] doc_type = "paystub" -> <<"p","a","y","s","t","u","b">>
      [] doc_type = "other"   -> <<"o","t","h","e","r">>

\* "synthetic_" + doc_type + "_" + str(i+1).zfill(4) + ".jpg"
Filename(doc_type, index) ==
    SyntheticPrefix \o DocTypeChars(doc_type) \o <<"_">>
        \o Zfill(NatStr(index + 1), FilenameWidth) \o DotJpg

\* os.path.join(output_dir, doc_type, filename)
OutputPath(output_dir, doc_type, index) ==
    JoinPath(JoinPath(output_dir, DocTypeChars(doc_type)),
             Filename(doc_type, index))

\* Values of --output_dir: the default "./dataset", a plain name and a name
\* with a trailing separator.
OutputDirs ==
    { <<".","/","d","a","t","a","s","e","t">>, <<"o","u","t">>,
      <<"o","u","t","/">> }

\* Values of the loop variable i (0-based) of batches of up to 100000
\* documents.
LoopIndices == {0, 8, 9, 98, 99, 998, 999, 9998, 9999, 10000, 12344, 99999}

OutputPathDraws ==
    [ output_dir : OutputDirs, doc_type : {"w2", "paystub", "other"},
      i : LoopIndices ]

CallOutputPath ==
    /\ field_call = "none"
    /\ \E d \in OutputPathDraws :
         /\ draws' = d
         /\ data' = [ filename    |-> Filename(d.doc_type, d.i),
                      output_path |-> OutputPath(d.output_dir, d.doc_type, d.i) ]
    /\ field_call' = "output_path"
    /\ field_error' = "none"
    /\ UNCHANGED <<genVars, mainVars, renderVars, callerVars>>

NextFields ==
    \/ CallOutputPath
    \/ CallPaystubGenerateFakeData
    \/ CallGenerateReceiptData
    \/ CallGenerateInvoiceData
    \/ CallGenerateDriversLicenseData
    \/ CallW2GenerateFakeData
    \/ DropData

SpecFields == InitFields /\ [][NextFields]_vars

-----------------------------------------------------------------------------
(* Properties of the amounts in a mapping.                                 *)

DigitValue(ch) == CHOOSE d \in 0..9 : Digits[d + 1] = ch

RECURSIVE DigitsValue(_)
DigitsValue(s) ==
    IF s = <<>> THEN 0
    ELSE 10 * DigitsValue(SubSeq(s, 1, Len(s) - 1)) + DigitValue(s[Len(s)])

\* The position of the decimal point in s, or 0.
PointAt(s) ==
    IF \E k \in 1..Len(s) : s[k] = "."
    THEN CHOOSE k \in 1..Len(s) : s[k] = "." ELSE 0

\* The number a formatted field reads as, in cents: an optional sign, the
\* whole part and, after a point, two decimals.
ValueInCents(s) ==
    LET neg   == s # <<>> /\ s[1] = "-"
        body  == IF neg THEN Tail(s) ELSE s
        point == PointAt(body)
        whole == IF point = 0 THEN body ELSE SubSeq(body, 1, point - 1)
        cents == IF point = 0 THEN 0
                 ELSE DigitsValue(SubSeq(body, point + 1, Len(body)))
        magnitude == 100 * DigitsValue(whole) + cents
    IN  IF neg THEN -magnitude ELSE magnitude

\* An absent (empty-string) optional deduction counts as 0.
DeductionInCents(s) == IF s = <<>> THEN 0 ELSE ValueInCents(s)

\* C9: in every pay-statement mapping generate_fake_data returns, the
\* formatted values satisfy net_pay = gross_pay - (federal_tax + state_tax +
\* social_security + medicare + health_insurance + retirement) within one
\* cent, an absent optional deduction counting as 0.
C9_NetPayIsGrossLessDeductions ==
    field_call = "paystub" =>
        LET deductions == ValueInCents(data.federal_tax)
                          + ValueInCents(data.state_tax)
                          + ValueInCents(data.social_security)
                          + ValueInCents(data.medicare)
                          + DeductionInCents(data.health_insurance)
                          + DeductionInCents(data.retirement)
        IN  Abs(ValueInCents(data.net_pay)
                - (ValueInCents(data.gross_pay) - deductions)) <= 1

\* The discount of a receipt or invoice mapping, 0 when it lists none.
DiscountInCents(mapping) ==
    IF "discount" \in DOMAIN mapping THEN ValueInCents(mapping.discount) ELSE 0

RECURSIVE SumServiceTotals(_)
SumServiceTotals(services) ==
    IF services = <<>> THEN 0
    ELSE ValueInCents(Head(services).total) + SumServiceTotals(Tail(services))

\* The sum of the line totals a receipt or invoice mapping lists, in cents.
SumOfListedLines(call, mapping) ==
    IF call = "receipt" THEN SumTotals(mapping.items)
    ELSE SumServiceTotals(mapping.services)

\* C11: in every receipt or invoice mapping the subtotal field equals the
\* sum of the line totals listed in the same mapping (the items' total of a
\* receipt, the services' total of an invoice).
C11_SubtotalIsSumOfLines ==
    field_call \in {"receipt", "invoice"} =>
        ValueInCents(data.subtotal) = SumOfListedLines(field_call, data)

\* The part of C11 that the receipt routine does satisfy.
C11_ReceiptSubtotalIsSumOfItems ==
    field_call = "receipt" =>
        ValueInCents(data.subtotal) = SumOfListedLines(field_call, data)

-----------------------------------------------------------------------------
(* Properties of the driver's license routine and of field generation.     *)

\* C12: field generation never raises: whatever the random module and
\* faker return within the declared ranges (every issue date of the last
\* five years and every expiry offset of 4, 5 or 8 years included), the
\* routine called returns a mapping rather than an error.
C12_FieldGenerationNeverRaises ==
    field_call # "none" => field_error = "none"

\* The routines for which C12 does hold: only the driver's license routine
\* raises, and only for an issue date of February 29 with an expiry year
\* that is not a leap year.
C12_OnlyLeapDayRaises ==
    field_error # "none" =>
        /\ field_call = "drivers_license"
        /\ field_error = "ValueError"
        /\ draws.issue_date.month = 2 /\ draws.issue_date.day = 29
        /\ ~IsLeap(draws.issue_date.year + draws.offset)

\* C13: the generated license number has the length of the state's format,
\* carries every character of the format that is neither a letter nor a
\* digit unchanged at the same position, has an uppercase letter where the
\* format has a letter and a decimal digit where the format has a digit.
C13_LicenseNumberMatchesFormat ==
    (field_call = "drivers_license" /\ field_error = "none") =>
        LET format == draws.state.format
            number == data.license_number
        IN  /\ Len(number) = Len(format)
            /\ \A p \in 1..Len(format) :
                 IF format[p] \in Range(UpperCaseLetters)
                 THEN number[p] \in Range(UpperCaseLetters)
                 ELSE IF format[p] \in Range(Digits)
                      THEN number[p] \in Range(Digits)
                      ELSE number[p] = format[p]

\* A Florida license number ('A123-456-78-901-0') was generated with a
\* letter other than the format's and digits other than the format's.
C13_Witness ==
    /\ field_call = "drivers_license"
    /\ field_error = "none"
    /\ draws.state.abbr = "FL"
    /\ data.license_number[1] = "Z"
    /\ data.license_number[2] = "0"
    /\ data.license_number[5] = "-"
    /\ Len(data.license_number) = 17

-----------------------------------------------------------------------------
(* Properties of the tax form.                                             *)

\* s without its grouping commas.
StripCommas(s) == SelectSeq(s, LAMBDA ch : ch # ",")

\* C14: in every tax-form mapping social_security_wages is min(wages,
\* 160200) exactly; over the wages the routine samples it is the same
\* figure as wages and as medicare_wages.
C14_SocialSecurityWagesIsMinOfWagesAndBase ==
    field_call = "w2" =>
        /\ ValueInCents(StripCommas(data.social_security_wages))
             = 100 * (IF draws.annual_wages <= 160200
                      THEN draws.annual_wages ELSE 160200)
        /\ ValueInCents(StripCommas(data.wages)) = 100 * draws.annual_wages
        /\ data.social_security_wages = data.wages
        /\ data.social_security_wages = data.medicare_wages

\* A tax form for the largest wages the routine samples: the wage base is
\* not reached and all three figures read 150,000.00.
C14_Witness ==
    /\ field_call = "w2"
    /\ draws.annual_wages = 150000
    /\ data.social_security_wages
         = <<"1", "5", "0", ",", "0", "0", "0", ".", "0", "0">>
    /\ data.medicare_wages = data.social_security_wages

-----------------------------------------------------------------------------
(* Properties of the pay amounts.                                          *)

\* C15: regular_pay = rate * regular_hours, overtime_pay = rate * 1.5 *
\* overtime_hours and gross_pay = regular_pay + overtime_pay: each formatted
\* figure is the product of the draws (rate in cents, hours in tenths)
\* rounded to the cent, a rate of 20.00 with 40 regular and no overtime
\* hours gives a gross_pay of "800.00", and in every mapping gross_pay is
\* regular_pay + overtime_pay within one cent.
C15_GrossIsRegularPlusOvertime ==
    field_call = "paystub" =>
        LET rate     == draws.hourly_rate
            regular  == ValueInCents(data.regular_pay)
            overtime == ValueInCents(data.overtime_pay)
            gross    == ValueInCents(data.gross_pay)
        IN  /\ Abs(10 * regular - rate * draws.regular_hours) <= 5
            /\ Abs(20 * overtime - 3 * rate * draws.overtime_hours) <= 10
            /\ Abs(20 * gross - (2 * rate * draws.regular_hours
                                 + 3 * rate * draws.overtime_hours)) <= 10
            /\ Abs(gross - (regular + overtime)) <= 1
            /\ (rate = 2000 /\ draws.regular_hours = 400 /\ draws.overtime_hours = 0)
                  => data.gross_pay = <<"8", "0", "0", ".", "0", "0">>

\* The pay statement of the scenario: rate 20.00, 40 regular hours, no
\* overtime, weekly.
C15_Witness ==
    /\ field_call = "paystub"
    /\ draws.pay_frequency = "weekly"
    /\ draws.hourly_rate = 2000
    /\ draws.regular_hours = 400
    /\ draws.overtime_hours = 0
    /\ data.gross_pay = <<"8", "0", "0", ".", "0", "0">>
    /\ data.overtime_pay = <<"0", ".", "0", "0">>


-----------------------------------------------------------------------------
(* The failure met when no template was discovered (checked under SpecGen). *)

\* The routines generate_fake_data of OtherGenerator can select.
SubtypeRoutines == { SubtypeRoutine[t] : t \in DOMAIN SubtypeRoutine }

C16_NoRoutineWithoutTemplates ==
    /\ (ctor_cls = "other" /\ DiscoveredFiles = {}) =>
            /\ ctor_error = NoTemplatesFoundError
            /\ ~HasGenerator
            /\ routine = "none"
            /\ last_call = "__init__"
    /\ (ctor_cls = "other" /\ last_call = "generate_fake_data") =>
            /\ ctor_error = "none"
            /\ Len(generator.templates) >= 1
            /\ routine \in SubtypeRoutines


-----------------------------------------------------------------------------
(* Properties of the output path (checked under SpecFields).               *)

\* The digits between "synthetic_<class>_" and ".jpg" in a file name.
IndexDigits(filename, doc_type) ==
    SubSeq(filename,
           Len(SyntheticPrefix) + Len(DocTypeChars(doc_type)) + 2,
           Len(filename) - Len(DotJpg))

\* The path is <output_root>/<class>/<file name>, with one separator after
\* the root unless the root already ends with one.
PathIsRootClassName(path, root, doc_type, filename) ==
    LET sep == IF root[Len(root)] = "/" THEN <<>> ELSE <<"/">>
    IN  path = root \o sep \o DocTypeChars(doc_type) \o <<"/">> \o filename

\* The file name is synthetic_<class>_<digits>.jpg.
NameIsSyntheticClassDigits(filename, doc_type) ==
    LET front == SyntheticPrefix \o DocTypeChars(doc_type) \o <<"_">>
    IN  /\ Len(filename) > Len(front) + Len(DotJpg)
        /\ SubSeq(filename, 1, Len(front)) = front
        /\ EndsWith(filename, DotJpg)
        /\ \A k \in DOMAIN IndexDigits(filename, doc_type) :
               IsDigit(IndexDigits(filename, doc_type)[k])

\* C17: the output path of document i of class c is
\* <output_root>/<c>/synthetic_<c>_<digits>.jpg, where the digits are i
\* written with exactly four zero-padded decimal digits, for every i, also
\* beyond 9999.
C17_IndexHasExactlyFourDigits ==
    field_call = "output_path" =>
        /\ PathIsRootClassName(data.output_path, draws.output_dir,
                               draws.doc_type, data.filename)
        /\ NameIsSyntheticClassDigits(data.filename, draws.doc_type)
        /\ DigitsValue(IndexDigits(data.filename, draws.doc_type)) = draws.i + 1
        /\ Len(IndexDigits(data.filename, draws.doc_type)) = 4

\* C17 (amended): the output path of document i of class c is
\* <output_root>/<c>/synthetic_<c>_<digits>.jpg, where the digits are i in
\* decimal, zero-padded on the left to four digits: exactly four digits for
\* i <= 9999, and the five or more digits of i itself, with no leading
\* zero, for i > 9999.
C17_IndexHasAtLeastFourDigits ==
    field_call = "output_path" =>
        LET digits == IndexDigits(data.filename, draws.doc_type)
        IN  /\ PathIsRootClassName(data.output_path, draws.output_dir,
                                   draws.doc_type, data.filename)
            /\ NameIsSyntheticClassDigits(data.filename, draws.doc_type)
            /\ DigitsValue(digits) = draws.i + 1
            /\ draws.i + 1 <= 9999 => Len(digits) = 4
            /\ draws.i + 1 > 9999 => (Len(digits) >= 5 /\ digits[1] # "0")

\* C17 witness: document 10000 of a batch of pay statements written under
\* the default output directory.
C17_Witness ==
    /\ field_call = "output_path"
    /\ draws.doc_type = "paystub"
    /\ draws.i + 1 = 10000
    /\ data.output_path =
         <<".","/","d","a","t","a","s","e","t","/","p","a","y","s","t","u","b","/",
           "s","y","n","t","h","e","t","i","c","_","p","a","y","s","t","u","b","_",
           "1","0","0","0","0",".","j","p","g">>


-----------------------------------------------------------------------------
(* Properties of the monetary values of a mapping (checked under           *)
(* SpecFields).                                                            *)

IsFloat(v) == v # <<>> /\ v[1] = "float"

\* s is an optional sign, one or more digits (with or without grouping
\* commas), a point and two digits.
IsFixedPointText(s) ==
    LET unsigned == IF s # <<>> /\ s[1] = "-" THEN Tail(s) ELSE s
        plain    == StripCommas(unsigned)
        n        == Len(plain)
    IN  /\ n >= 4
        /\ unsigned[1] # "," /\ plain[n - 2] = "."
        /\ \A k \in (1..n) \ {n - 2} : IsDigit(plain[k])

\* v is a pre-formatted fixed-point string: not a number, not empty.
IsFormattedMoney(v) == ~IsFloat(v) /\ IsFixedPointText(v)

RECURSIVE LineValues(_, _)
LineValues(lines, unit) ==
    IF lines = <<>> THEN <<>>
    ELSE <<Head(lines)[unit], Head(lines).total>> \o LineValues(Tail(lines), unit)

\* The monetary values of the mapping a routine returned, lines included.
MonetaryValues(call, m) ==
    CASE call = "paystub" ->
           <<m.hourly_rate, m.regular_pay, m.overtime_rate, m.overtime_pay,
             m.gross_pay, m.federal_tax, m.state_tax, m.social_security,
             m.medicare, m.health_insurance, m.retirement,
             m.total_deductions, m.net_pay, m.ytd_gross, m.ytd_net,
             m.ytd_federal_tax>>
      [] call = "receipt" ->
           <<m.subtotal, m.tax, m.total>> \o LineValues(m.items, "price")
      [] call = "invoice" ->
           <<m.subtotal, m.tax, m.total>> \o LineValues(m.services, "rate")
      [] call = "w2" ->
           <<m.wages, m.federal_tax_withheld, m.social_security_wages,
             m.social_security_tax, m.medicare_wages, m.medicare_tax,
             m.social_security_tips, m.allocated_tips,
             m.dependent_care_benefits, m.nonqualified_plans, m.state_wages,
             m.state_tax_withheld, m.local_wages, m.local_tax>>
      [] OTHER -> <<>>

ReturnedMapping == field_call # "none" /\ field_error = "none"

\* C18: in every mapping a generator returns, every monetary value, the
\* totals of receipt items and the optional deductions of a pay statement
\* included, is a pre-formatted fixed-point string with two decimals, never
\* a raw number and never an empty string.
C18_MonetaryValuesAreFormatted ==
    ReturnedMapping =>
        \A k \in DOMAIN MonetaryValues(field_call, data) :
            IsFormattedMoney(MonetaryValues(field_call, data)[k])

\* What the code does produce: a fixed-point string, a float (the total of
\* a receipt item), the empty string (a deduction or a local figure that
\* was not drawn) or "0" (the sums of an invoice).
C18_FormattedOrLeftRaw ==
    ReturnedMapping =>
        \A k \in DOMAIN MonetaryValues(field_call, data) :
            LET v == MonetaryValues(field_call, data)[k]
            IN  \/ IsFloat(v) /\ field_call = "receipt"
                \/ v = <<>> /\ field_call \in {"paystub", "w2"}
                \/ v = <<"0">> /\ field_call = "invoice"
                \/ IsFormattedMoney(v)


-----------------------------------------------------------------------------
(* The frame of the generator's operations (checked under Spec).           *)

\* generate_documents holds a generator and is in its loop, at the start
\* of an iteration or inside generate_and_save.
InBatch == pc \in {"loop", "fields", "render", "augment", "save"}

\* C19: after construction no operation of a generator changes the
\* templates list or the template-to-subtype map; between the start and the
\* end of one document's generation the instance differs in template_index
\* only, which get_html_template_path alone moves: generate_fake_data and
\* the steps after it leave the whole instance as it was.
C19_OnlyCursorChanges ==
    [][ InBatch =>
          /\ generator'.cls = generator.cls
          /\ generator'.templates = generator.templates
          /\ generator'.document_types = generator.document_types
          /\ pc # "loop" => generator' = generator
          /\ pc = "fields" =>
                generator'.template_index = generator.template_index ]_vars

\* C19 witness: two documents of a batch over two templates have been
\* generated and saved; the cursor has moved and is back at 0.
C19_Witness ==
    /\ pc = "loop"
    /\ succeeded = {1, 2}
    /\ Len(generator.templates) = 2
    /\ generator.template_index = 0
    /\ last_call = "generate_fake_data"


-----------------------------------------------------------------------------
(* Template coverage of a batch (checked under Spec).                      *)

\* The number of times get_html_template_path has returned template t.
TimesDispatched(t) == Cardinality({k \in DOMAIN dispatched : dispatched[k] = t})

\* C20: in a batch over T templates, after every prefix of the batch and at
\* its end, the numbers of times any two templates were dispatched differ
\* by at most 1: after n dispatches each template was dispatched floor(n/T)
\* or ceil(n/T) times, and a batch of N documents that has returned made N
\* dispatches.
C20_EvenTemplateCoverage ==
    HasGenerator =>
        LET T == Len(generator.templates)
            n == Len(dispatched)
        IN  /\ \A j, k \in 1..T :
                  TimesDispatched(generator.templates[j])
                      - TimesDispatched(generator.templates[k]) \in {-1, 0, 1}
            /\ \A j \in 1..T :
                  TimesDispatched(generator.templates[j])
                      \in {n \div T, (n + T - 1) \div T}
            /\ pc = "returned" => n = count

\* C20 witness: a batch of five documents over two templates has returned;
\* one template was dispatched three times and the other twice.
C20_Witness ==
    /\ pc = "returned"
    /\ count = 5
    /\ Len(generator.templates) = 2
    /\ TimesDispatched(generator.templates[1]) = 3
    /\ TimesDispatched(generator.templates[2]) = 2


-----------------------------------------------------------------------------
(* Properties of the year-to-date figures (checked under SpecFields).      *)

\* amount * n, n a small whole number.
Times(a, n) == Amount(a.c * n, a.f * n)

\* The year-to-date amount y is x * periods_elapsed * variance exactly
\* (both sides taken VarianceUnit times to compare whole numbers).
IsScaled(y, x, periods_elapsed, variance) ==
    Amount(VarianceUnit * y.c, y.f)
        = Times(Times(x, periods_elapsed), variance)

\* The formatted figure is the amount y rounded to a cent.
ReadsAs(text, y) == ValueInCents(text) \in {y.c, y.c + 1}

\* C21: one variance multiplier and one periods_elapsed, a whole number
\* from 1 to the periods per year of the sampled frequency (52, 26, 24 or
\* 12), are applied to all three year-to-date figures, each being its
\* pay-period amount times periods_elapsed times variance; so ytd_gross :
\* ytd_federal_tax : ytd_net is gross_pay : federal_tax : net_pay.
C21_YtdFiguresShareOneFactor ==
    field_call = "paystub" =>
        LET x  == PayrollAmounts(draws)
            pe == draws.periods_elapsed
            va == draws.variance
            y  == GenerateYtdAmounts(x, pe, va)
        IN  /\ pe \in 1..PeriodsInYear(draws.pay_frequency)
            /\ PeriodsInYear(draws.pay_frequency) \in {52, 26, 24, 12}
            /\ IsScaled(y.ytd_gross, x.gross_pay, pe, va)
            /\ IsScaled(y.ytd_federal_tax, x.federal_tax, pe, va)
            /\ IsScaled(y.ytd_net, x.net_pay, pe, va)
            /\ ReadsAs(data.ytd_gross, y.ytd_gross)
            /\ ReadsAs(data.ytd_federal_tax, y.ytd_federal_tax)
            /\ ReadsAs(data.ytd_net, y.ytd_net)

\* C21 witness: a weekly pay statement of 800.00 gross with all 52 periods
\* elapsed and a variance of 1.13.
C21_Witness ==
    /\ field_call = "paystub"
    /\ draws.pay_frequency = "weekly"
    /\ draws.periods_elapsed = 52
    /\ draws.variance = 113
    /\ draws.federal_rate = 1507
    /\ data.gross_pay = <<"8", "0", "0", ".", "0", "0">>
    /\ data.ytd_gross = <<"4", "7", "0", "0", "8", ".", "0", "0">>
    /\ data.ytd_federal_tax = <<"7", "0", "8", "4", ".", "1", "1">>


-----------------------------------------------------------------------------
(* The order of the steps of an iteration (checked under Spec).            *)

\* The iteration of index i ends in the handler: the error is logged, no
\* file is written and the loop goes on with the next index.
IterationAborted ==
    /\ pc' = "loop"
    /\ i' = i + 1
    /\ errors' = Append(errors, i + 1)
    /\ succeeded' = succeeded

\* What one step of generate_documents may do, by the place it starts from.
StepInOrder ==
    /\ pc = "loop" =>
          \/ /\ pc' = "fields"
             /\ i < count /\ i' = i
             /\ attempted' = Append(attempted, i + 1)
             /\ last_call' = "get_html_template_path"
          \/ pc' = "returned" /\ i >= count /\ attempted' = attempted
    /\ pc = "fields" =>
          \/ pc' = "render" /\ i' = i /\ last_call' = "generate_fake_data"
          \/ IterationAborted
    /\ pc = "render" => (pc' = "augment" /\ i' = i) \/ IterationAborted
    /\ pc = "augment" => (pc' = "save" /\ i' = i) \/ IterationAborted
    /\ pc = "save" =>
          \/ /\ pc' = "loop"
             /\ i' = i + 1
             /\ succeeded' = succeeded \cup {i + 1}
             /\ errors' = errors
          \/ IterationAborted
    /\ (InBatch /\ pc # "save") => succeeded' = succeeded
    /\ InIteration => (attempted' = attempted /\ dispatched' = dispatched)

\* C22: within every iteration the steps happen in the order template
\* dispatch, field generation, render, degradation, save, each only after
\* the one before it returned; an iteration that raises writes no file for
\* its index; and an iteration starts only when the one before it has
\* ended.
C22_StepsInOrder ==
    /\ [](succeeded \cap Range(errors) = {})
    /\ [](InIteration => attempted[Len(attempted)] = i + 1)
    /\ [][StepInOrder]_vars

\* C22 witness: document 1 raised during degradation, before save; document
\* 2 went through all five steps and was saved.
C22_Witness ==
    /\ pc = "loop"
    /\ i = 2
    /\ errors = <<1>>
    /\ last_raise = "augment"
    /\ succeeded = {2}
    /\ attempted = <<1, 2>>


-----------------------------------------------------------------------------
(* The cursor across failed attempts (checked under Spec).                 *)

\* C25: in generate_documents the k-th iteration dispatches
\* templates[(k-1) mod T] whether or not earlier iterations failed in field
\* generation, render, degradation or save: the cursor advances once per
\* attempted document, so a failure neither repeats nor skips a template.
C25_CursorAdvancesPerAttempt ==
    HasGenerator =>
        LET T == Len(generator.templates)
        IN  /\ Len(dispatched) = Len(attempted)
            /\ \A k \in DOMAIN dispatched :
                  dispatched[k] = generator.templates[((k - 1) % T) + 1]
            /\ generator.template_index = Len(attempted) % T

\* C25 witness: over two templates document 1 raised and document 2 was
\* then dispatched with the second template; document 3 got the first
\* again after document 2 had raised as well.
C25_Witness ==
    /\ Len(generator.templates) = 2
    /\ errors = <<1, 2>>
    /\ attempted = <<1, 2, 3>>
    /\ dispatched = <<generator.templates[1], generator.templates[2],
                      generator.templates[1]>>


-----------------------------------------------------------------------------
(* The sign of the net pay (checked under SpecFields).                     *)

\* C26: for every pay statement the generator can produce, net_pay is not
\* negative: total_deductions never exceeds gross_pay.
C26_NetPayNotNegative ==
    field_call = "paystub" =>
        /\ ValueInCents(data.net_pay) >= 0
        /\ data.net_pay[1] # "-"
        /\ ValueInCents(data.total_deductions) <= ValueInCents(data.gross_pay)

\* Where the net pay is negative: only in a weekly statement with the flat
\* health insurance drawn.
C26_NegativeOnlyWeeklyWithInsurance ==
    (field_call = "paystub" /\ data.net_pay[1] = "-") =>
        /\ draws.pay_frequency = "weekly"
        /\ draws.health_insurance.taken


-----------------------------------------------------------------------------
(* The temporary PDF of render_html_to_image (checked under Spec).         *)

\* C27: whenever render_html_to_image has returned or raised, the temporary
\* PDF it created no longer exists: on success, on a failure of the
\* conversion to an image, and on a failure of the HTML-to-PDF step after
\* the file was created.
C27_TempPdfRemoved == temp_pdf # "exists"

\* Where the file is left behind: only by a call that raised.
C27_LeftOnlyByFailedRender ==
    [][ (temp_pdf' = "exists" /\ temp_pdf # "exists") =>
            (pc = "render" /\ last_raise' = "render" /\ pc' = "loop") ]_vars


-----------------------------------------------------------------------------
(* SpecCallers: two callers of generate_clean_document, one statement at a *)
(* time.                                                                   *)
(*                                                                         *)
(* Each caller is in generate_clean_document on its instance: the read of  *)
(* templates[template_index], the read of template_index for the new       *)
(* value, the assignment of the new value (and the return of the path),    *)
(* the lookup of generate_fake_data, and the call of render_html_to_image  *)
(* with the path and the data.  The callers either share one instance or   *)
(* have one each; with serialized set, a caller enters only while no other *)
(* caller of its instance is inside.                                       *)

Callers == {1, 2}

\* The generate_clean_document calls each caller makes.
MaxCallsEach == 2

\* The template directories of the instances the callers use.
CallerScans(cls) ==
    IF cls = "other"
    THEN { << <<"r","e","c","e","i","p","t","_","b","a","n","k",".","h","t","m","l">>,
              <<"m","e","d","i","c","a","l","_","i","n","v","o","i","c","e",".","h","t","m","l">> >>,
           << <<"d","r","i","v","e","r","s","_","l","i","c","e","n","s","e",".","h","t","m","l">>,
              <<"r","e","c","e","i","p","t","_","b","a","n","k",".","h","t","m","l">>,
              <<"m","e","d","i","c","a","l",".","h","t","m","l">> >> }
    ELSE { << <<"a",".","h","t","m","l">>, <<"b",".","h","t","m","l">> >> }

\* cls(config) for each of these directories.
CallerInstances(cls) == { NewGenerator(cls, scan).instance : scan \in CallerScans(cls) }

\* A caller outside generate_clean_document that has made no call yet.
NewCaller(inst) ==
    [inst |-> inst, pc |-> "idle", calls |-> 0, template_path |-> <<>>,
     loaded |-> 0, routine |-> "none", rendered |-> <<>>]

\* The mutant of StoreTemplateIndex: template_index is an attribute of the
\* class, shared by all instances.
StoreTemplateIndexShared(insts, id, value) ==
    [k \in DOMAIN insts |-> [insts[k] EXCEPT !.template_index = value]]

\* self.template_index = value on instance id.
StoreTemplateIndex(insts, id, value) ==
    [insts EXCEPT ![id].template_index = value]

\* The mutant of MayEnter: serialization is not enforced.
MayEnterUnlocked(c) == TRUE

\* With serialized access a caller enters generate_clean_document only
\* while no other caller of the same instance is inside it.
MayEnter(c) ==
    serialized =>
        \A o \in Callers \ {c} :
            callers[o].inst = callers[c].inst => callers[o].pc = "idle"

InitCallers ==
    /\ generator = NoGenerator
    /\ ctor_cls = "none"
    /\ ctor_error = "none"
    /\ listing = <<>>
    /\ dispatched = <<>>
    /\ template_path = <<>>
    /\ routine = "none"
    /\ last_call = "none"
    /\ prev_call = "none"
    /\ doc_type_arg = "none"
    /\ schedule = <<>>
    /\ completed = <<>>
    /\ pc = "callers"
    /\ count = 0
    /\ i = 0
    /\ attempted = <<>>
    /\ succeeded = {}
    /\ errors = <<>>
    /\ last_raise = "none"
    /\ stdout = <<>>
    /\ field_call = "none"
    /\ draws = <<>>
    /\ data = <<>>
    /\ field_error = "none"
    /\ temp_pdf = "none"
    /\ serialized \in BOOLEAN
    /\ \/ /\ instances \in { <<g>> : g \in CallerInstances("other") }
          /\ callers = [c \in Callers |-> NewCaller(1)]
          /\ returned = << <<>> >>
       \/ /\ instances \in { <<g, h>> : g \in CallerInstances("other"),
                                        h \in CallerInstances("other")
                                              \cup CallerInstances("w2") }
          /\ callers = [c \in Callers |-> NewCaller(c)]
          /\ returned = << <<>>, <<>> >>

\* The caller calls generator.generate_clean_document().
EnterGenerateCleanDocument(c) ==
    /\ callers[c].pc = "idle"
    /\ callers[c].calls < MaxCallsEach
    /\ MayEnter(c)
    /\ callers' = [callers EXCEPT ![c].pc = "read", ![c].calls = @ + 1]
    /\ UNCHANGED <<instances, returned>>

\* template_path = self.templates[self.template_index]
ReadTemplate(c) ==
    LET g == instances[callers[c].inst]
    IN  /\ callers[c].pc = "read"
        /\ callers' = [callers EXCEPT
                         ![c].template_path = PyIndex(g.templates, g.template_index),
                         ![c].pc = "load"]
        /\ UNCHANGED <<instances, returned>>

\* The right-hand side of the assignment reads self.template_index.
LoadTemplateIndex(c) ==
    /\ callers[c].pc = "load"
    /\ callers' = [callers EXCEPT
                     ![c].loaded = instances[callers[c].inst].template_index,
                     ![c].pc = "store"]
    /\ UNCHANGED <<instances, returned>>

\* self.template_index = (value read + 1) % len(self.templates), and the
\* path is returned.
StoreAndReturn(c) ==
    LET id == callers[c].inst
        g  == instances[id]
    IN  /\ callers[c].pc = "store"
        /\ instances' = StoreTemplateIndex(instances, id,
                            AdvanceCursor(callers[c].loaded, Len(g.templates)))
        /\ returned' = [returned EXCEPT ![id] = Append(@, callers[c].template_path)]
        /\ callers' = [callers EXCEPT ![c].pc = "lookup"]

\* data = self.generate_fake_data(): the routine is chosen from the cursor
\* as it is now.
LookupFakeData(c) ==
    /\ callers[c].pc = "lookup"
    /\ callers' = [callers EXCEPT
                     ![c].routine = SelectedRoutine(instances[callers[c].inst]),
                     ![c].pc = "render"]
    /\ UNCHANGED <<instances, returned>>

\* self.render_html_to_image(template_path, data), and the call returns.
RenderAndReturn(c) ==
    /\ callers[c].pc = "render"
    /\ callers' = [callers EXCEPT
                     ![c].rendered = [template_path |-> callers[c].template_path,
                                      routine |-> callers[c].routine],
                     ![c].pc = "idle"]
    /\ UNCHANGED <<instances, returned>>

NextCallers ==
    \E c \in Callers :
        /\ \/ EnterGenerateCleanDocument(c)
           \/ ReadTemplate(c)
           \/ LoadTemplateIndex(c)
           \/ StoreAndReturn(c)
           \/ LookupFakeData(c)
           \/ RenderAndReturn(c)
        /\ serialized' = serialized
        /\ UNCHANGED <<genVars, mainVars, fieldVars, renderVars>>

SpecCallers == InitCallers /\ [][NextCallers]_vars


-----------------------------------------------------------------------------
(* One cursor per instance, and unserialized callers of one instance       *)
(* (checked under SpecCallers).                                            *)

\* The callers hold distinct instances.
SeparateInstances == \A c, o \in Callers : c # o => callers[c].inst # callers[o].inst

\* The callers share one instance.
SharedInstance == \A c, o \in Callers : callers[c].inst = callers[o].inst

\* paths is the round-robin sequence over templates, starting at template 0.
IsRoundRobinFromZero(paths, templates) ==
    \A k \in 1..Len(paths) : paths[k] = templates[((k - 1) % Len(templates)) + 1]

\* Instance id has returned its round-robin sequence and its cursor stands
\* after the last path returned.
CursorIsOwn(id) ==
    /\ IsRoundRobinFromZero(returned[id], instances[id].templates)
    /\ instances[id].template_index =
           Len(returned[id]) % Len(instances[id].templates)

\* A step changes an instance only for a caller of that instance that
\* assigns its cursor, and changes nothing but the cursor.
OnlyOwnCursorChanges ==
    \A id \in DOMAIN instances :
        instances'[id] # instances[id] =>
            /\ \E c \in Callers :
                   /\ callers[c].inst = id
                   /\ callers[c].pc = "store"
                   /\ callers'[c].pc = "lookup"
            /\ instances'[id] = [instances[id] EXCEPT
                                   !.template_index = instances'[id].template_index]

\* C23: with two callers on two distinct instances, of the same or of
\* different classes, and under every interleaving of their calls, the calls
\* on one instance never change the template_index of the other, and the
\* sequence each instance returned is its round-robin sequence from
\* template 0.
C23_OneCursorPerInstance ==
    /\ [](SeparateInstances => \A id \in DOMAIN instances : CursorIsOwn(id))
    /\ [][SeparateInstances => OnlyOwnCursorChanges]_vars

\* C23 witness: two instances of different classes, one with three
\* templates and one with two; each has returned one path, and both callers
\* are in their second call at once, between the read of the cursor and its
\* assignment.
C23_Witness ==
    /\ SeparateInstances
    /\ instances[1].cls = "other" /\ Len(instances[1].templates) = 3
    /\ instances[2].cls = "w2"
    /\ callers[1].pc = "store" /\ callers[1].calls = 2
    /\ callers[2].pc = "store" /\ callers[2].calls = 2
    /\ Len(returned[1]) = 1 /\ instances[1].template_index = 1
    /\ Len(returned[2]) = 1 /\ instances[2].template_index = 1

\* The routine the subtype mapping of instance g names for a template path.
RoutineOfTemplate(g, path) ==
    IF g.cls = "other"
    THEN RoutineFor(DictGet(g.document_types, path, "generic"))
    ELSE SelectedRoutine(g)

\* Caller c rendered a template with the field data of the subtype of a
\* different template.
Mismatch(c) ==
    /\ callers[c].rendered # <<>>
    /\ callers[c].rendered.routine #
           RoutineOfTemplate(instances[callers[c].inst], callers[c].rendered.template_path)

\* Instance id returned the same template to two calls in a row although it
\* has more than one template: the cursor advanced once for two calls.
LostAdvance(id) ==
    /\ Len(instances[id].templates) > 1
    /\ \E k \in 1..(Len(returned[id]) - 1) : returned[id][k] = returned[id][k + 1]

\* C24: with each generate_clean_document on the shared OtherGenerator run
\* atomically, no caller renders a template with the field data of another
\* template's subtype, and no two callers receive the same template for one
\* advance of the cursor.
C24_SerializedCallsAreConsistent ==
    (SharedInstance /\ serialized) =>
        /\ \A c \in Callers : ~Mismatch(c)
        /\ ~LostAdvance(1)
        /\ CursorIsOwn(1)

\* C24 witness: without serialization, on one OtherGenerator with three
\* templates, the two callers received the same template while the cursor
\* advanced once, and a caller rendered a template with the data of
\* another template's subtype.
C24_Witness ==
    /\ SharedInstance
    /\ ~serialized
    /\ instances[1].cls = "other"
    /\ LostAdvance(1)
    /\ \E c \in Callers : Mismatch(c)

=============================================================================
